---- MODULE Spec2Model ----
(***************************************************************************)
(* Glasses-Order-Aggregator: the /api/aggregate and /api/labels handlers   *)
(* of the worker, as a state machine.  Text is modelled as a sequence of   *)
(* one-character strings so that trimming, case folding, substring search  *)
(* and the column-name conventions are computed, not assumed.              *)
(***************************************************************************)
EXTENDS Integers, Sequences, FiniteSets, TLC

(***************************************************************************)
(* Bounds of the model.                                                    *)
(***************************************************************************)
MaxRows == 3
MaxLabels == 7
MaxPage == 4
MaxTextLen == 3
MaxPhrases == 2
MaxItems == 3
MaxBundleIndex == 2
MaxStream == 3
MaxRequests == 2

(***************************************************************************)
(* Text primitives (JavaScript String operations used by the worker).      *)
(***************************************************************************)
Range(s) == { s[i] : i \in DOMAIN s }

UpperChars == <<"A","B","C","D","E","F","G","H","I","J","K","L","M","N","O","P","Q","R","S","T","U","V","W","X","Y","Z">>
LowerChars == <<"a","b","c","d","e","f","g","h","i","j","k","l","m","n","o","p","q","r","s","t","u","v","w","x","y","z">>
DigitChars == <<"0","1","2","3","4","5","6","7","8","9">>

UpperSet == Range(UpperChars)
DigitSet == Range(DigitChars)
WordSet == UpperSet \cup Range(LowerChars) \cup DigitSet \cup {"_"}
SpaceSet == {" ", "\t", "\n", "\r", "nbsp"}

\* the printable ASCII characters from code unit 32 on (the grave accent, 96, by name)
AsciiPrintable ==
  <<" ","!","\"","#","$","%","&","'","(",")","*","+",",","-",".","/","0","1","2","3","4","5","6","7","8","9",":",";","<","=",">","?","@">> \o UpperChars \o <<"[","\\","]","^","_">> \o <<"grave">> \o LowerChars
    \o <<"{", "|", "}", "~">>

CodeUnits == [ch \in Range(AsciiPrintable) |->
                31 + (CHOOSE i \in DOMAIN AsciiPrintable : AsciiPrintable[i] = ch)]

\* characters outside printable ASCII that the uploads of the model may hold, by name
ExtraCodePoints ==
  [ch \in {"kana", "hangul", "han", "eacute", "nbsp", "\t", "\n", "\r"} |->
     CASE ch = "kana" -> 12354      \* U+3042
       [] ch = "hangul" -> 44032    \* U+AC00
       [] ch = "han" -> 20013       \* U+4E2D
       [] ch = "eacute" -> 233      \* U+00E9
       [] ch = "nbsp" -> 160        \* U+00A0, white space for trim and \s
       [] ch = "\t" -> 9
       [] ch = "\n" -> 10
       [] ch = "\r" -> 13]

\* ch.codePointAt(0)
CodePoint(ch) == IF ch \in DOMAIN CodeUnits THEN CodeUnits[ch] ELSE ExtraCodePoints[ch]

\* String.prototype.trim / the \s class: the white space of the model's alphabet
IsSpace(ch) == ch \in SpaceSet

\* the \w class of a JavaScript regular expression
IsWordChar(ch) == ch \in WordSet

IsDigit(ch) == ch \in DigitSet

DigitValues == [ch \in DigitSet |-> (CHOOSE i \in DOMAIN DigitChars : DigitChars[i] = ch) - 1]

DigitVal(ch) == DigitValues[ch]

LowerOfUpper ==
  [ch \in UpperSet |-> LowerChars[CHOOSE i \in DOMAIN UpperChars : UpperChars[i] = ch]]

LowerChar(ch) == IF ch \in UpperSet THEN LowerOfUpper[ch] ELSE ch

\* String.prototype.toLowerCase
ToLower(s) == [i \in DOMAIN s |-> LowerChar(s[i])]

RECURSIVE TrimLeft(_)
TrimLeft(s) == IF s # <<>> /\ IsSpace(Head(s)) THEN TrimLeft(Tail(s)) ELSE s

RECURSIVE TrimRight(_)
TrimRight(s) ==
  IF s # <<>> /\ IsSpace(s[Len(s)]) THEN TrimRight(SubSeq(s, 1, Len(s) - 1)) ELSE s

\* String.prototype.trim
Trim(s) == TrimRight(TrimLeft(s))

\* the text occupies positions i .. i+Len(sub)-1 of s
OccursAt(s, sub, i) ==
  /\ i >= 1
  /\ i + Len(sub) - 1 <= Len(s)
  /\ SubSeq(s, i, i + Len(sub) - 1) = sub

\* String.prototype.includes
Includes(s, sub) == \E i \in 1..(Len(s) + 1) : OccursAt(s, sub, i)

\* a match of the regular expression /\bword\b/ (word made of \w characters)
WholeWordAt(s, word, i) ==
  /\ OccursAt(s, word, i)
  /\ (i = 1 \/ ~IsWordChar(s[i - 1]))
  /\ (i + Len(word) - 1 = Len(s) \/ ~IsWordChar(s[i + Len(word)]))

HasWholeWord(s, word) == \E i \in 1..Len(s) : WholeWordAt(s, word, i)

\* decimal text of a natural number (String(n) / template interpolation)
RECURSIVE NatText(_)
NatText(n) ==
  IF n < 10 THEN <<DigitChars[n + 1]>>
  ELSE NatText(n \div 10) \o <<DigitChars[(n % 10) + 1]>>

\* Array.prototype.join
RECURSIVE Join(_, _)
Join(list, sep) ==
  IF list = <<>> THEN <<>>
  ELSE IF Len(list) = 1 THEN list[1]
  ELSE list[1] \o sep \o Join(Tail(list), sep)

\* Array.prototype.filter on a sequence, by a predicate given as a set
RECURSIVE FilterSeq(_, _)
FilterSeq(s, keep) ==
  IF s = <<>> THEN <<>>
  ELSE (IF Head(s) \in keep THEN <<Head(s)>> ELSE <<>>) \o FilterSeq(Tail(s), keep)

(***************************************************************************)
(* Column names and literals of the worker.                                *)
(***************************************************************************)
ORDER_ID == <<"O","r","d","e","r"," ","I","D">>
BUNDLE_ID == <<"B","u","n","d","l","e"," ","I","D">>
LINE_ITEM == <<"L","i","n","e"," ","I","t","e","m">>
QTY == <<"Q","u","a","n","t","i","t","y">>
BUNDLE_COUNT == <<"B","u","n","d","l","e"," ","C","o","u","n","t">>
LINE_ITEM_PRICE == <<"L","i","n","e"," ","I","t","e","m"," ","P","r","i","c","e">>
LENS_NOTES == <<"L","e","n","s"," ","N","o","t","e","s">>
NAME == <<"N","a","m","e">>

RequiredColumns == <<ORDER_ID, BUNDLE_ID, LINE_ITEM, QTY>>

DEFAULT_LABEL_LIMIT == 200
MAX_LABEL_LIMIT == 300

\* the built-in drop list, as the module-level Set is constructed
AGGREGATE_DROP_DEFAULT ==
  { <<"S","h","o","p","i","f","y"," ","O","r","d","e","r"," ","I","D">>, <<"E","m","a","i","l">>, <<"F","u","l","f","i","l","l","e","d"," ","a","t">>, <<"C","u","r","r","e","n","c","y">>, <<"S","u","b","t","o","t","a","l">>,
    <<"S","h","i","p","p","i","n","g">>, <<"T","a","x","e","s">>, <<"T","o","t","a","l">>, <<"D","i","s","c","o","u","n","t"," ","a","m","o","u","n","t">>, <<"S","h","i","p","p","i","n","g"," ","m","e","t","h","o","d">>,
    <<"P","a","y","m","e","n","t"," ","M","e","t","h","o","d">>, <<"S","o","u","r","c","e">>, <<"B","i","l","l","i","n","g"," ","A","d","d","r","e","s","s">>, <<"R","e","f","u","n","d"," ","a","m","o","u","n","t">>,
    <<"L","i","n","e"," ","I","t","e","m"," ","V","e","n","d","o","r">>, <<"L","i","n","e"," ","I","t","e","m"," ","F","u","l","f","i","l","l","m","e","n","t"," ","S","t","a","t","u","s">>, <<"L","i","n","e"," ","I","t","e","m"," ","D","i","s","c","o","u","n","t">>,
    <<"S","t","o","r","e">>, <<"U","p","l","o","a","d"," ","U","R","L">>, <<"C","o","m","m","i","s","s","i","o","n"," ","c","h","a","r","g","e">>, <<"S","e","g","m","e","n","t"," ","H","e","i","g","h","t"," ","O","D">>,
    <<"S","e","g","m","e","n","t"," ","H","e","i","g","h","t"," ","O","S">>, <<"O","c","u","l","a","r"," ","H","e","i","g","h","t"," ","O","D">>, <<"O","c","u","l","a","r"," ","H","e","i","g","h","t"," ","O","S">>,
    <<"P","r","i","s","m"," ","O","D"," ","H","o","r","i","z","o","n","t","a","l">>, <<"P","r","i","s","m"," ","O","D"," ","H","o","r","i","z","o","n","t","a","l"," ","B","a","s","e"," ","D","i","r","e","c","t","i","o","n">>,
    <<"P","r","i","s","m"," ","O","D"," ","V","e","r","t","i","c","a","l">>, <<"P","r","i","s","m"," ","O","D"," ","V","e","r","t","i","c","a","l"," ","B","a","s","e"," ","D","i","r","e","c","t","i","o","n">>,
    <<"P","r","i","s","m"," ","O","S"," ","H","o","r","i","z","o","n","t","a","l">>, <<"P","r","i","s","m"," ","O","S"," ","H","o","r","i","z","o","n","t","a","l"," ","B","a","s","e"," ","D","i","r","e","c","t","i","o","n">>,
    <<"P","r","i","s","m"," ","O","S"," ","V","e","r","t","i","c","a","l">>, <<"P","r","i","s","m"," ","O","S"," ","V","e","r","t","i","c","a","l"," ","B","a","s","e"," ","D","i","r","e","c","t","i","o","n">>, <<"L","e","n","s"," ","N","o","t","e","s">> }

(***************************************************************************)
(* uniqPreserveOrder: trim, drop blanks, keep first occurrences.           *)
(***************************************************************************)
RECURSIVE UniqFrom(_, _, _)
UniqFrom(arr, seen, out) ==
  IF arr = <<>> THEN out
  ELSE LET v == Trim(Head(arr)) IN
       IF v = <<>> THEN UniqFrom(Tail(arr), seen, out)
       ELSE IF v \notin seen THEN UniqFrom(Tail(arr), seen \cup {v}, Append(out, v))
       ELSE UniqFrom(Tail(arr), seen, out)

\* only the first kept value: later, different values are lost as if they were repeats
uniqPreserveOrder_FirstOnly(arr) ==
  IF UniqFrom(arr, {}, <<>>) = <<>> THEN <<>> ELSE <<UniqFrom(arr, {}, <<>>)[1]>>

\* duplicates are kept
uniqPreserveOrder_KeepAll(arr) ==
  SelectSeq([i \in 1..Len(arr) |-> Trim(arr[i])], LAMBDA v : v # <<>>)

uniqPreserveOrder(arr) == UniqFrom(arr, {}, <<>>)

(***************************************************************************)
(* categorize: the keyword cascade over the lower-cased item text.         *)
(***************************************************************************)
Categories == {"Frame", "Lens", "Coating", "Other"}

\* the cascade with the lens test ahead of the coating test
categorize_LensFirst(item) ==
  LET s == ToLower(item) IN
  IF \/ Includes(s, <<"i","n","d","e","x"," ","l","e","n","s">>)
     \/ Includes(s, <<"p","r","e","s","c","r","i","p","t","i","o","n"," ","l","e","n","s">>)
     \/ HasWholeWord(s, <<"l","e","n","s">>) THEN "Lens"
  ELSE IF Includes(s, <<"c","o","a","t","i","n","g">>) THEN "Coating"
  ELSE IF Includes(s, <<"f","r","a","m","e">>) \/ Includes(s, <<"g","l","a","s","s","e","s"," ","s","t","y","l","e">>) THEN "Frame"
  ELSE "Other"

categorize(item) ==
  LET s == ToLower(item) IN
  IF Includes(s, <<"c","o","a","t","i","n","g">>) THEN "Coating"
  ELSE IF \/ Includes(s, <<"i","n","d","e","x"," ","l","e","n","s">>)
          \/ Includes(s, <<"p","r","e","s","c","r","i","p","t","i","o","n"," ","l","e","n","s">>)
          \/ HasWholeWord(s, <<"l","e","n","s">>) THEN "Lens"
  ELSE IF Includes(s, <<"f","r","a","m","e">>) \/ Includes(s, <<"g","l","a","s","s","e","s"," ","s","t","y","l","e">>) THEN "Frame"
  ELSE "Other"

(***************************************************************************)
(* Number(text) for decimal literals: a sign, integer digits, fraction     *)
(* digits and a decimal exponent, or "Infinity"; anything else is NaN.     *)
(* A finite value below 10^21 is held as its integer part and its fraction *)
(* digits with trailing zeros removed; a value of 10^21 or more is held as *)
(* the text String(n) gives it.  Radix prefixes are outside the alphabet   *)
(* of the inputs, as are integer parts of 10 to 21 digits.                 *)
(***************************************************************************)
NaN == [nan |-> TRUE, neg |-> FALSE, int |-> 0, frac |-> <<>>, inf |-> FALSE, big |-> <<>>]

Num(neg, int, frac) ==
  [nan |-> FALSE, neg |-> neg, int |-> int, frac |-> frac, inf |-> FALSE, big |-> <<>>]

One == Num(FALSE, 1, <<>>)

\* Infinity and -Infinity
Inf(neg) == [nan |-> FALSE, neg |-> neg, int |-> 0, frac |-> <<>>, inf |-> TRUE, big |-> <<>>]

\* a finite number of magnitude 10^21 or more, with the text of its magnitude
Big(neg, text) ==
  [nan |-> FALSE, neg |-> neg, int |-> 0, frac |-> <<>>, inf |-> FALSE, big |-> text]

RECURSIVE DigitsValue(_)
DigitsValue(ds) ==
  IF ds = <<>> THEN 0 ELSE DigitsValue(SubSeq(ds, 1, Len(ds) - 1)) * 10 + DigitVal(ds[Len(ds)])

RECURSIVE StripTrailingZeros(_)
StripTrailingZeros(ds) ==
  IF ds # <<>> /\ ds[Len(ds)] = "0" THEN StripTrailingZeros(SubSeq(ds, 1, Len(ds) - 1)) ELSE ds

RECURSIVE StripLeadingZeros(_)
StripLeadingZeros(ds) ==
  IF ds # <<>> /\ Head(ds) = "0" THEN StripLeadingZeros(Tail(ds)) ELSE ds

Zeros(n) == [i \in 1..n |-> "0"]

AllDigits(ds) == \A i \in DOMAIN ds : IsDigit(ds[i])

IsZero(n) == ~n.nan /\ ~n.inf /\ n.big = <<>> /\ n.int = 0 /\ n.frac = <<>>

\* String(n) of a magnitude of 10^21 or more whose digits (leading zeros removed, at most
\* 15 significant ones) are given: d.ddd e+X
ExponentText(digits) ==
  <<Head(digits)>>
    \o (IF StripTrailingZeros(Tail(digits)) # <<>>
        THEN <<".">> \o StripTrailingZeros(Tail(digits)) ELSE <<>>)
    \o <<"e","+">> \o NatText(Len(digits) - 1)

\* the number with the integer digits ip and the fraction digits fp
OfDigits(neg, ip, fp) ==
  IF Len(ip) > 309 THEN Inf(neg)
  ELSE IF Len(ip) > 21 THEN Big(neg, ExponentText(ip))
  ELSE Num(neg, DigitsValue(ip), StripTrailingZeros(fp))

\* the digits ds with the decimal point after the first p of them
Shifted(neg, ds, p) ==
  OfDigits(neg,
           StripLeadingZeros(IF p <= 0 THEN <<>>
                             ELSE IF p >= Len(ds) THEN ds \o Zeros(p - Len(ds))
                             ELSE SubSeq(ds, 1, p)),
           IF p <= 0 THEN Zeros(0 - p) \o ds
           ELSE IF p >= Len(ds) THEN <<>>
           ELSE SubSeq(ds, p + 1, Len(ds)))

\* digits, a point and digits, with a digit on one side at least, times 10^e
ParseDecimal(neg, body, e) ==
  LET dots == { i \in DOMAIN body : body[i] = "." }
      d == IF dots = {} THEN Len(body) + 1 ELSE CHOOSE i \in dots : \A j \in dots : i <= j
      ip == SubSeq(body, 1, d - 1)
      fp == SubSeq(body, d + 1, Len(body))
  IN IF AllDigits(ip) /\ AllDigits(fp) /\ (ip # <<>> \/ fp # <<>>)
     THEN Shifted(neg, ip \o fp, Len(ip) + e)
     ELSE NaN

\* the exponent part after "e": an optional sign and digits
ParseExponent(neg, mant, ex) ==
  LET signed == ex # <<>> /\ Head(ex) \in {"+", "-"}
      ds == IF signed THEN Tail(ex) ELSE ex
  IN IF ds # <<>> /\ AllDigits(ds) /\ Len(ds) <= 3
     THEN ParseDecimal(neg, mant,
                       IF signed /\ Head(ex) = "-" THEN 0 - DigitsValue(ds) ELSE DigitsValue(ds))
     ELSE NaN

\* a literal without an exponent part is its mantissa times 10^0
ParseUnsigned(neg, body) ==
  LET es == { i \in DOMAIN body : body[i] \in {"e", "E"} }
      k == IF es = {} THEN Len(body) + 1 ELSE CHOOSE i \in es : \A j \in es : i <= j
  IN IF body = <<"I","n","f","i","n","i","t","y">> THEN Inf(neg)
     ELSE ParseExponent(neg, SubSeq(body, 1, k - 1),
                        IF es = {} THEN <<"0">> ELSE SubSeq(body, k + 1, Len(body)))

\* Number(s) of a string s
Number(s) ==
  LET t == Trim(s) IN
  IF t = <<>> THEN Num(FALSE, 0, <<>>)
  ELSE ParseUnsigned(Head(t) = "-", IF Head(t) \in {"-", "+"} THEN Tail(t) ELSE t)

\* Number.isFinite(n)
IsFinite(n) == ~n.nan /\ ~n.inf

\* numeric equality (-0 equals 0)
NumEq(a, b) ==
  /\ ~a.nan /\ ~b.nan
  /\ a.int = b.int /\ a.frac = b.frac /\ a.inf = b.inf /\ a.big = b.big
  /\ (a.neg = b.neg \/ (IsZero(a) /\ IsZero(b)))

\* String(n) of a number that is not NaN (magnitudes below 10^-6 are not among the inputs)
NumberText(n) ==
  (IF n.neg /\ ~IsZero(n) THEN <<"-">> ELSE <<>>)
    \o (IF n.inf THEN <<"I","n","f","i","n","i","t","y">>
        ELSE IF n.big # <<>> THEN n.big
        ELSE NatText(n.int) \o (IF n.frac # <<>> THEN <<".">> \o n.frac ELSE <<>>))

\* Number(r[QTY]) || 1
QtyOf(qtyText) ==
  LET n == Number(qtyText) IN IF n.nan \/ IsZero(n) THEN One ELSE n

\* the item display string: qty !== 1 ? `${item} x${qty}` : String(item)
DisplayOf(item, qtyText) ==
  LET qty == QtyOf(qtyText) IN
  IF ~NumEq(qty, One) THEN item \o <<" ","x">> \o NumberText(qty) ELSE item

(***************************************************************************)
(* fmtTwoDec: blank, "/", "nan" and unparsable text give the empty text,   *)
(* a number gives Number.prototype.toFixed(2).                             *)
(***************************************************************************)
RECURSIVE Pow2Mod(_, _)
Pow2Mod(k, m) == IF k = 0 THEN 1 % m ELSE (2 * Pow2Mod(k - 1, m)) % m

\* the least j with n * 2^j >= bound, and the greatest e with 2^e <= n
RECURSIVE Doublings(_, _)
Doublings(n, bound) == IF n >= bound THEN 0 ELSE 1 + Doublings(2 * n, bound)
RECURSIVE Log2Floor(_)
Log2Floor(n) == IF n < 2 THEN 0 ELSE 1 + Log2Floor(n \div 2)

\* the bits after the binary point of the 53-bit double nearest to thousandths/1000
MantissaShift(thousandths) ==
  IF thousandths >= 1000 THEN 52 - Log2Floor(thousandths \div 1000)
  ELSE 52 + Doublings(thousandths, 1000)

\* a value with exactly three fraction digits, the third a 5, lies half-way between two
\* hundredths; toFixed rounds the double holding it, which is above the half-way point
\* when the remainder dropped in the conversion to binary is more than a half, equal to
\* it when nothing is dropped (the larger neighbour is taken), and below it otherwise
TieRoundsUp(thousandths) ==
  \/ ((thousandths % 1000) * Pow2Mod(MantissaShift(thousandths), 1000)) % 1000 = 0
  \/ ((thousandths % 1000) * Pow2Mod(MantissaShift(thousandths), 1000)) % 1000 > 500

\* the discarded digits (after the second) round the value up
RoundsUp(int, frac) ==
  /\ Len(frac) > 2
  /\ \/ DigitVal(frac[3]) > 5
     \/ DigitVal(frac[3]) = 5 /\ Len(frac) > 3
     \/ DigitVal(frac[3]) = 5 /\ Len(frac) = 3 /\ TieRoundsUp(int * 1000 + DigitsValue(frac))

\* the number of hundredths of |n| after rounding
Hundredths(n) ==
  n.int * 100
    + (IF Len(n.frac) >= 1 THEN DigitVal(n.frac[1]) * 10 ELSE 0)
    + (IF Len(n.frac) >= 2 THEN DigitVal(n.frac[2]) ELSE 0)
    + (IF RoundsUp(n.int, n.frac) THEN 1 ELSE 0)

\* n.toFixed(2) of a finite n: a magnitude of 10^21 or more is given as String(n)
ToFixed2(n) ==
  LET h == Hundredths(n) IN
  (IF n.neg /\ ~IsZero(n) THEN <<"-">> ELSE <<>>)
    \o (IF n.big # <<>> THEN n.big
        ELSE NatText(h \div 100) \o <<".">>
               \o <<DigitChars[((h % 100) \div 10) + 1], DigitChars[(h % 10) + 1]>>)

fmtTwoDec(x) ==
  LET s == Trim(x) IN
  IF s = <<>> \/ s = <<"/">> \/ ToLower(s) = <<"n","a","n">> THEN <<>>
  ELSE LET n == Number(s) IN IF IsFinite(n) THEN ToFixed2(n) ELSE <<>>

\* Math.round(n) of a finite n below 10^21: halves go up, towards plus infinity
MathRound(n) ==
  IF n.neg
  THEN n.int + (IF n.frac # <<>> /\ (DigitVal(n.frac[1]) > 5
                                      \/ (DigitVal(n.frac[1]) = 5 /\ Len(n.frac) > 1))
                THEN 1 ELSE 0)
  ELSE n.int + (IF n.frac # <<>> /\ DigitVal(n.frac[1]) >= 5 THEN 1 ELSE 0)

\* String(Math.round(n)): minus zero is written 0
RoundText(n) ==
  IF n.big # <<>> THEN (IF n.neg THEN <<"-">> ELSE <<>>) \o n.big
  ELSE (IF n.neg /\ MathRound(n) # 0 THEN <<"-">> ELSE <<>>) \o NatText(MathRound(n))

fmtAxis(x) ==
  LET s == Trim(x) IN
  IF s = <<>> \/ s = <<"/">> \/ ToLower(s) = <<"n","a","n">> THEN <<>>
  ELSE LET n == Number(s) IN IF IsFinite(n) THEN RoundText(n) ELSE <<>>

(***************************************************************************)
(* Objects with string keys: functions whose domain is the set of keys.    *)
(***************************************************************************)
EmptyObject == [k \in {} |-> <<>>]

\* the members a plain object literal inherits from Object.prototype
ObjectPrototypeNames ==
  { <<"c","o","n","s","t","r","u","c","t","o","r">>, <<"t","o","S","t","r","i","n","g">>, <<"t","o","L","o","c","a","l","e","S","t","r","i","n","g">>, <<"v","a","l","u","e","O","f">>, <<"h","a","s","O","w","n","P","r","o","p","e","r","t","y">>,
    <<"i","s","P","r","o","t","o","t","y","p","e","O","f">>, <<"p","r","o","p","e","r","t","y","I","s","E","n","u","m","e","r","a","b","l","e">>, <<"_","_","p","r","o","t","o","_","_">> }

\* obj[k] is truthy: an own non-empty string, or an inherited member when obj has no own k
Truthy(obj, k) ==
  IF k \in DOMAIN obj THEN obj[k] # <<>> ELSE k \in ObjectPrototypeNames

\* String(v ?? "").trim() !== ""
NonBlank(row, k) == k \in DOMAIN row /\ Trim(row[k]) # <<>>

\* `${name} (Bundle ${i})`
BundleKey(name, i) == name \o <<" ","(","B","u","n","d","l","e"," ">> \o NatText(i) \o <<")">>

(***************************************************************************)
(* The drop set of one aggregate request and shouldDropColumn.             *)
(***************************************************************************)
\* drop_cols.split(",").map(trim).filter(Boolean), the names already split
CustomDropNames(dropCols) == { Trim(c) : c \in { d \in dropCols : Trim(d) # <<>> } }

\* (url.searchParams.get("drop") || "default").toLowerCase(); "" stands for an absent parameter
DropModeOf(dropParam) == IF dropParam = <<>> THEN <<"d","e","f","a","u","l","t">> ELSE ToLower(dropParam)

\* the caller's names added whatever the mode
BuildDropSet_AnyMode(builtin, dropParam, dropCols) ==
  (IF DropModeOf(dropParam) # <<"n","o","n","e">> THEN builtin ELSE {}) \cup CustomDropNames(dropCols)

BuildDropSet(builtin, dropParam, dropCols) ==
  LET dropMode == DropModeOf(dropParam)
      applyDefault == dropMode # <<"n","o","n","e">>
  IN (IF applyDefault THEN builtin ELSE {})
       \cup (IF dropMode = <<"c","u","s","t","o","m">> THEN CustomDropNames(dropCols) ELSE {})

\* the text that /^(.*) \\(Bundle \\d+\\)$/ requires after the captured prefix:
\* a space, a backslash, "Bundle ", a backslash, k letters d and a backslash
DropPatternTail(k) == <<" ","\\","B","u","n","d","l","e"," ","\\">> \o [i \in 1..k |-> "d"] \o <<"\\">>

\* the capture m[1] of name.match(/^(.*) \\(Bundle \\d+\\)$/), as a set (empty when no match)
DropPatternCapture(name) ==
  IF name = <<>> \/ name[Len(name)] # "\\" THEN {}
  ELSE { SubSeq(name, 1, p) : p \in { q \in 0..Len(name) :
           /\ \E k \in 1..Len(name) : SubSeq(name, q + 1, Len(name)) = DropPatternTail(k)
           /\ \A j \in 1..q : name[j] \notin {"\n", "\r"} } }

shouldDropColumn(dropSet, name) ==
  \/ name \in dropSet
  \/ \E base \in DropPatternCapture(name) : base \in dropSet

(***************************************************************************)
(* Column classification from the keys of the first row.                   *)
(***************************************************************************)
RxKeywords ==
  { <<"o","d">>, <<"o","s">>, <<"p","d">>, <<"p","r","i","s","m">>, <<"a","d","d">>, <<"a","x","i","s">>, <<"c","y","l","i","n","d","e","r">>, <<"s","p","h","e","r","e">>,
    <<"p","u","p","i","l","l","a","r","y">>, <<"b","a","s","e">> }

\* /\b(OD|OS|PD|Prism|ADD|Axis|Cylinder|Sphere|Pupillary|base)\b/i.test(c)
rxRe(c) == LET s == ToLower(c) IN \E kw \in RxKeywords : HasWholeWord(s, kw)

RxColumnsOf(allColumns, dropSet) ==
  FilterSeq(allColumns,
            { c \in Range(allColumns) :
                (rxRe(c) \/ c = LENS_NOTES) /\ ~shouldDropColumn(dropSet, c) })

lineLevelCols == {LINE_ITEM, QTY, LINE_ITEM_PRICE}
idCols == {ORDER_ID, BUNDLE_ID}

OrderLevelColsOf(allColumns, dropSet) ==
  LET rxSet == Range(RxColumnsOf(allColumns, dropSet)) IN
  FilterSeq(allColumns,
            { c \in Range(allColumns) :
                /\ c \notin lineLevelCols
                /\ c \notin rxSet
                /\ c \notin idCols
                /\ ~shouldDropColumn(dropSet, c) })

(***************************************************************************)
(* The single-pass fold of handleAggregate over the rows.                  *)
(***************************************************************************)
EmptyItems == [cat \in Categories |-> <<>>]

NewBundle(bundleId) == [bundleId |-> bundleId, items |-> EmptyItems, rx |-> EmptyObject]

NewOrder(orderId) == [orderId |-> orderId, orderFields |-> EmptyObject, bundles |-> <<>>]

\* the merge without the test of the value kept: the last non-empty value wins
MergeFirstNonEmpty_LastWins(fields, r, cols) ==
  LET set == { c \in Range(cols) : NonBlank(r, c) } IN
  [c \in DOMAIN fields \cup set |-> IF c \in set THEN r[c] ELSE fields[c]]

\* for (const c of cols) if (!fields[c] && String(r[c] ?? "").trim() !== "") fields[c] = r[c]
MergeFirstNonEmpty(fields, r, cols) ==
  LET set == { c \in Range(cols) : ~Truthy(fields, c) /\ NonBlank(r, c) } IN
  [c \in DOMAIN fields \cup set |-> IF c \in set THEN r[c] ELSE fields[c]]

\* position of a key in an insertion-ordered Map, 0 when absent
IndexOfKey(entries, key, keyOf(_)) ==
  IF \E i \in DOMAIN entries : keyOf(entries[i]) = key
  THEN CHOOSE i \in DOMAIN entries : keyOf(entries[i]) = key
  ELSE 0

OrderKey(o) == o.orderId
BundleKeyOf(b) == b.bundleId

\* b.items[categorize(item)].push(display)
PushItem(b, item, qtyText) ==
  [b EXCEPT !.items[categorize(item)] = Append(@, DisplayOf(item, qtyText))]

AggFoldBundle(b, r, rxColumns) ==
  LET b1 == PushItem(b, r[LINE_ITEM], r[QTY]) IN
  [b1 EXCEPT !.rx = MergeFirstNonEmpty(@, r, rxColumns)]

\* the Rx values kept per order: every bundle of the order receives the row's values
AggFoldOrder_RxPerOrder(o, r, orderLevelCols, rxColumns) ==
  LET o1 == [o EXCEPT !.orderFields = MergeFirstNonEmpty(@, r, orderLevelCols)]
      bundleId == r[BUNDLE_ID]
      bs == IF IndexOfKey(o1.bundles, bundleId, BundleKeyOf) = 0
            THEN Append(o1.bundles, NewBundle(bundleId)) ELSE o1.bundles
      j == IndexOfKey(bs, bundleId, BundleKeyOf)
  IN [o1 EXCEPT !.bundles =
        [k \in DOMAIN bs |->
           IF k = j THEN AggFoldBundle(bs[k], r, rxColumns)
           ELSE [bs[k] EXCEPT !.rx = MergeFirstNonEmpty(@, r, rxColumns)]]]

AggFoldOrder(o, r, orderLevelCols, rxColumns) ==
  LET o1 == [o EXCEPT !.orderFields = MergeFirstNonEmpty(@, r, orderLevelCols)]
      bundleId == r[BUNDLE_ID]
      bs == IF IndexOfKey(o1.bundles, bundleId, BundleKeyOf) = 0
            THEN Append(o1.bundles, NewBundle(bundleId)) ELSE o1.bundles
      j == IndexOfKey(bs, bundleId, BundleKeyOf)
  IN [o1 EXCEPT !.bundles = [bs EXCEPT ![j] = AggFoldBundle(@, r, rxColumns)]]

\* the fold without the get of get-or-create: every row opens a new order
AggFoldRow_AlwaysNew(orderMap, r, orderLevelCols, rxColumns) ==
  LET om == Append(orderMap, NewOrder(r[ORDER_ID])) IN
  [om EXCEPT ![Len(om)] = AggFoldOrder(@, r, orderLevelCols, rxColumns)]

AggFoldRow(orderMap, r, orderLevelCols, rxColumns) ==
  LET orderId == r[ORDER_ID]
      om == IF IndexOfKey(orderMap, orderId, OrderKey) = 0
            THEN Append(orderMap, NewOrder(orderId)) ELSE orderMap
      i == IndexOfKey(om, orderId, OrderKey)
  IN [om EXCEPT ![i] = AggFoldOrder(@, r, orderLevelCols, rxColumns)]

RECURSIVE AggFold(_, _, _, _)
AggFold(orderMap, rows, orderLevelCols, rxColumns) ==
  IF rows = <<>> THEN orderMap
  ELSE AggFold(AggFoldRow(orderMap, Head(rows), orderLevelCols, rxColumns),
               Tail(rows), orderLevelCols, rxColumns)

(***************************************************************************)
(* String.prototype.localeCompare for Bundle IDs written with hyphens,     *)
(* digits and lower-case letters: the collation ranks these characters in  *)
(* the order below and compares rank by rank, a proper prefix first.       *)
(***************************************************************************)
CollationOrder == <<"-","0","1","2","3","4","5","6","7","8","9","a","b","c","d","e","f","g","h","i","j","k","l","m","n","o","p","q","r","s","t","u","v","w","x","y","z">>

CollationRanks ==
  [ch \in Range(CollationOrder) |-> CHOOSE i \in DOMAIN CollationOrder : CollationOrder[i] = ch]

CollationRank(ch) == CollationRanks[ch]

RECURSIVE localeCompare(_, _)
localeCompare(a, b) ==
  IF a = <<>> /\ b = <<>> THEN 0
  ELSE IF a = <<>> THEN -1
  ELSE IF b = <<>> THEN 1
  ELSE IF CollationRank(Head(a)) < CollationRank(Head(b)) THEN -1
  ELSE IF CollationRank(Head(a)) > CollationRank(Head(b)) THEN 1
  ELSE localeCompare(Tail(a), Tail(b))

\* a numeric comparator: Number(a.bundleId) - Number(b.bundleId)
CompareBundles_Numeric(a, b) ==
  LET x == Number(a.bundleId)
      y == Number(b.bundleId)
  IN IF x.nan \/ y.nan THEN 0 ELSE x.int - y.int

\* comparator of the bundle sort
CompareBundles(a, b) == localeCompare(a.bundleId, b.bundleId)

\* Array.prototype.sort is stable: an element goes after every element not greater than it
RECURSIVE InsertBundle(_, _)
InsertBundle(sorted, b) ==
  IF sorted = <<>> THEN <<b>>
  ELSE IF CompareBundles(sorted[Len(sorted)], b) <= 0 THEN Append(sorted, b)
  ELSE Append(InsertBundle(SubSeq(sorted, 1, Len(sorted) - 1), b), sorted[Len(sorted)])

RECURSIVE SortFrom(_, _)
SortFrom(sorted, rest) ==
  IF rest = <<>> THEN sorted ELSE SortFrom(InsertBundle(sorted, Head(rest)), Tail(rest))

\* Array.from(o.bundles.values()).sort(...)
SortBundles(bundles) == SortFrom(<<>>, bundles)

(***************************************************************************)
(* The flatten step of handleAggregate.                                    *)
(***************************************************************************)
ItemColumns ==
  << [cat |-> "Frame", name |-> <<"F","r","a","m","e"," ","I","t","e","m","s">>],
     [cat |-> "Lens", name |-> <<"L","e","n","s"," ","I","t","e","m","s">>],
     [cat |-> "Coating", name |-> <<"C","o","a","t","i","n","g"," ","I","t","e","m","s">>],
     [cat |-> "Other", name |-> <<"O","t","h","e","r"," ","I","t","e","m","s">>] >>

\* the cells one bundle writes into rowOut, as (key, value) assignments in program order
BundleAssignments(b, i, rxColumns) ==
  << [key |-> BundleKey(BUNDLE_ID, i), val |-> b.bundleId] >>
    \o [k \in 1..Len(ItemColumns) |->
          [key |-> BundleKey(ItemColumns[k].name, i),
           val |-> Join(uniqPreserveOrder(b.items[ItemColumns[k].cat]), <<";"," ">>)]]
    \o [k \in 1..Len(rxColumns) |->
          [key |-> BundleKey(rxColumns[k], i),
           val |-> IF rxColumns[k] \in DOMAIN b.rx /\ Truthy(b.rx, rxColumns[k]) THEN b.rx[rxColumns[k]] ELSE <<>>]]

\* if (!shouldDropColumn(key)) rowOut[key] = val, for each assignment in turn
RECURSIVE ApplyAssignments(_, _, _)
ApplyAssignments(rowOut, assigns, dropSet) ==
  IF assigns = <<>> THEN rowOut
  ELSE LET a == Head(assigns) IN
       ApplyAssignments(
         IF shouldDropColumn(dropSet, a.key)
         THEN rowOut
         ELSE [k \in DOMAIN rowOut \cup {a.key} |-> IF k = a.key THEN a.val ELSE rowOut[k]],
         Tail(assigns), dropSet)

\* { [ORDER_ID]: o.orderId, "Bundle Count": bundles.length, ...o.orderFields }
RowOutBase(o, n) ==
  [k \in {ORDER_ID, BUNDLE_COUNT} \cup DOMAIN o.orderFields |->
     IF k \in DOMAIN o.orderFields THEN o.orderFields[k]
     ELSE IF k = ORDER_ID THEN o.orderId
     ELSE NatText(n)]

RECURSIVE RowOutBundles(_, _, _, _, _)
RowOutBundles(rowOut, bundles, i, rxColumns, dropSet) ==
  IF i > Len(bundles) THEN rowOut
  ELSE RowOutBundles(
         ApplyAssignments(rowOut, BundleAssignments(bundles[i], i, rxColumns), dropSet),
         bundles, i + 1, rxColumns, dropSet)

RowOutOf(o, rxColumns, dropSet) ==
  LET bundles == SortBundles(o.bundles) IN
  RowOutBundles(RowOutBase(o, Len(bundles)), bundles, 1, rxColumns, dropSet)

Max(a, b) == IF a >= b THEN a ELSE b

RECURSIVE MaxBundleCountFrom(_, _)
MaxBundleCountFrom(m, orderMap) ==
  IF orderMap = <<>> THEN m
  ELSE MaxBundleCountFrom(Max(m, Len(Head(orderMap).bundles)), Tail(orderMap))

\* the block count taken from the first order alone
MaxBundleCount_FirstOrder(orderMap) == Max(1, Len(Head(orderMap).bundles))

\* let maxBundleCount = 1; ... Math.max(maxBundleCount, bundles.length)
MaxBundleCount(orderMap) == MaxBundleCountFrom(1, orderMap)

BundleBlock(i, rxColumns) ==
  << BundleKey(BUNDLE_ID, i) >>
    \o [k \in 1..Len(ItemColumns) |-> BundleKey(ItemColumns[k].name, i)]
    \o [k \in 1..Len(rxColumns) |-> BundleKey(rxColumns[k], i)]

RECURSIVE BundleCols(_, _, _)
BundleCols(i, m, rxColumns) ==
  IF i > m THEN <<>> ELSE BundleBlock(i, rxColumns) \o BundleCols(i + 1, m, rxColumns)

RECURSIVE KeepColumns(_, _)
KeepColumns(cols, dropSet) ==
  IF cols = <<>> THEN <<>>
  ELSE (IF shouldDropColumn(dropSet, Head(cols)) THEN <<>> ELSE <<Head(cols)>>)
         \o KeepColumns(Tail(cols), dropSet)

\* [...baseCols, ...bundleCols].filter((c) => !shouldDropColumn(c))
OutputColumns(orderMap, orderLevelCols, rxColumns, dropSet) ==
  KeepColumns(<<ORDER_ID, BUNDLE_COUNT>> \o orderLevelCols
                \o BundleCols(1, MaxBundleCount(orderMap), rxColumns), dropSet)

\* Papa.unparse(out, { columns }): one cell per listed column, empty when the row has no such key
CsvRow(rowOut, columns) ==
  [c \in Range(columns) |-> IF c \in DOMAIN rowOut THEN rowOut[c] ELSE <<>>]

(***************************************************************************)
(* Aggregated-table detection of handleLabels.                             *)
(***************************************************************************)
\* lengths n >= 1 such that positions i .. i+n-1 of s all satisfy the class
RunLengths(s, i, IsClass(_)) ==
  { n \in 1..(Len(s) - i + 1) : \A j \in i..(i + n - 1) : IsClass(s[j]) }

\* the matches of /\(Bundle\s+(\d+)\)/i in h, as the start position and the captured digits
BundleTagMatches(h) ==
  LET s == ToLower(h)
      DigitRuns(p) == { n \in RunLengths(s, p, IsDigit) : p + n <= Len(h) /\ h[p + n] = ")" }
  IN UNION { UNION { { [at |-> a, digits |-> SubSeq(h, a + 7 + ns, a + 7 + ns + nd - 1)] :
                         nd \in DigitRuns(a + 7 + ns) } :
                     ns \in RunLengths(s, a + 7, IsSpace) } :
             a \in { i \in 1..Len(h) : OccursAt(s, <<"(","b","u","n","d","l","e">>, i) } }

HasBundleTag(h) == BundleTagMatches(h) # {}

\* Number(m[1]) of the first match of h.match(/\(Bundle\s+(\d+)\)/i)
BundleTagIndex(h) ==
  LET first == CHOOSE m \in BundleTagMatches(h) :
                 \A o \in BundleTagMatches(h) : m.at <= o.at
  IN DigitsValue(first.digits)

\* detection by the bundle-tagged columns alone
isAggregatedHeaders_TagOnly(headers) == \E h \in Range(headers) : HasBundleTag(h)

isAggregatedHeaders(headers) ==
  \/ BUNDLE_COUNT \in Range(headers)
  \/ \E h \in Range(headers) : HasBundleTag(h)

\* the set behind getBundleIndices (its sorted array is the increasing enumeration)
getBundleIndices(headers) ==
  { n \in { BundleTagIndex(h) : h \in { g \in Range(headers) : HasBundleTag(g) } } : n > 0 }

\* buildBundleColumnsMap(headers).get(idx) || []
BundleColumnsOf(headers, idx) ==
  FilterSeq(headers, { h \in Range(headers) : HasBundleTag(h) /\ BundleTagIndex(h) = idx })

\* headers.some((h) => /\(Bundle\s+1\)/i.test(h))
HasBundleOneTag(h) ==
  LET s == ToLower(h) IN
  \E i \in 1..Len(h) :
    /\ OccursAt(s, <<"(","b","u","n","d","l","e">>, i)
    /\ \E ns \in RunLengths(s, i + 7, IsSpace) : OccursAt(s, <<"1",")">>, i + 7 + ns)

\* Number(row["Bundle Count"]) of a cell that may be missing
BundleCountCell(row) == IF BUNDLE_COUNT \in DOMAIN row THEN Number(row[BUNDLE_COUNT]) ELSE NaN

\* the bundle indices with at least one non-empty column in the row
FilledIndices(row, headers) ==
  { idx \in getBundleIndices(headers) :
      \E c \in Range(BundleColumnsOf(headers, idx)) : NonBlank(row, c) }

\* maxIdx after the loop over bundleIndices
MaxFilledIndex(filled) ==
  IF filled = {} THEN 0 ELSE CHOOSE n \in filled : \A k \in filled : k <= n

\* a positive Bundle Count rounded up instead of down
BundleCountOr_RoundUp(bc, row, headers) ==
  IF IsFinite(bc) /\ ~bc.neg /\ ~IsZero(bc) THEN bc.int + (IF bc.frac # <<>> THEN 1 ELSE 0)
  ELSE MaxFilledIndex(FilledIndices(row, headers))

\* if (Number.isFinite(bc) && bc > 0) return Math.floor(bc); ... return maxIdx
BundleCountOr(bc, row, headers) ==
  IF IsFinite(bc) /\ ~bc.neg /\ ~IsZero(bc) THEN bc.int
  ELSE MaxFilledIndex(FilledIndices(row, headers))

inferBundleCount(row, headers) == BundleCountOr(BundleCountCell(row), row, headers)

\* pick(row, keys)
RECURSIVE pick(_, _)
pick(row, keys) ==
  IF keys = <<>> THEN <<>>
  ELSE IF NonBlank(row, Head(keys)) THEN row[Head(keys)]
  ELSE pick(row, Tail(keys))

\* pickFromBundle(row, keys, bundleIndex)
RECURSIVE pickBundleKeys(_, _, _)
pickBundleKeys(row, keys, bundleIndex) ==
  IF keys = <<>> THEN <<>>
  ELSE IF NonBlank(row, BundleKey(Head(keys), bundleIndex))
       THEN row[BundleKey(Head(keys), bundleIndex)]
  ELSE pickBundleKeys(row, Tail(keys), bundleIndex)

\* each candidate is looked up with the suffix and then without it
RECURSIVE pickFromBundle_PerKey(_, _, _)
pickFromBundle_PerKey(row, keys, bundleIndex) ==
  IF keys = <<>> THEN <<>>
  ELSE IF NonBlank(row, BundleKey(Head(keys), bundleIndex))
       THEN row[BundleKey(Head(keys), bundleIndex)]
  ELSE IF NonBlank(row, Head(keys)) THEN row[Head(keys)]
  ELSE pickFromBundle_PerKey(row, Tail(keys), bundleIndex)

pickFromBundle(row, keys, bundleIndex) ==
  IF \E i \in DOMAIN keys : NonBlank(row, BundleKey(keys[i], bundleIndex))
  THEN pickBundleKeys(row, keys, bundleIndex)
  ELSE pick(row, keys)

(***************************************************************************)
(* The raw-input fold of handleLabels.                                     *)
(***************************************************************************)
RX_KEYS ==
  [ od_sph |-> <<<<"O","D"," ","S","P","H">>, <<"O","D","_","S","P","H">>, <<"S","p","h","e","r","e"," ","O","D">>, <<"O","D"," ","S","p","h","e","r","e">>>>,
    od_cyl |-> <<<<"O","D"," ","C","Y","L">>, <<"O","D","_","C","Y","L">>, <<"C","y","l","i","n","d","e","r"," ","O","D">>, <<"O","D"," ","C","y","l","i","n","d","e","r">>>>,
    od_axis |-> <<<<"O","D"," ","A","x","i","s">>, <<"O","D","_","A","X","I","S">>, <<"A","x","i","s"," ","O","D">>, <<"O","D"," ","A","x","i","s">>>>,
    od_add |-> <<<<"O","D"," ","A","D","D">>, <<"O","D","_","A","D","D">>, <<"A","D","D"," ","O","D">>, <<"A","d","d"," ","O","D">>>>,
    os_sph |-> <<<<"O","S"," ","S","P","H">>, <<"O","S","_","S","P","H">>, <<"S","p","h","e","r","e"," ","O","S">>, <<"O","S"," ","S","p","h","e","r","e">>>>,
    os_cyl |-> <<<<"O","S"," ","C","Y","L">>, <<"O","S","_","C","Y","L">>, <<"C","y","l","i","n","d","e","r"," ","O","S">>, <<"O","S"," ","C","y","l","i","n","d","e","r">>>>,
    os_axis |-> <<<<"O","S"," ","A","x","i","s">>, <<"O","S","_","A","X","I","S">>, <<"A","x","i","s"," ","O","S">>, <<"O","S"," ","A","x","i","s">>>>,
    os_add |-> <<<<"O","S"," ","A","D","D">>, <<"O","S","_","A","D","D">>, <<"A","D","D"," ","O","S">>, <<"A","d","d"," ","O","S">>>>,
    pd_od |-> <<<<"P","D"," ","O","D">>, <<"P","D","_","O","D">>, <<"O","D"," ","P","D">>, <<"P","u","p","i","l","l","a","r","y"," ","D","i","s","t","a","n","c","e"," ","O","D">>>>,
    pd_os |-> <<<<"P","D"," ","O","S">>, <<"P","D","_","O","S">>, <<"O","S"," ","P","D">>, <<"P","u","p","i","l","l","a","r","y"," ","D","i","s","t","a","n","c","e"," ","O","S">>>>,
    pres_type |-> <<<<"P","r","e","s","c","r","i","p","t","i","o","n"," ","T","y","p","e">>, <<"P","r","e","s","c","r","i","p","t","i","o","n">>, <<"L","e","n","s"," ","T","y","p","e">>>> ]

keysToKeep ==
  RX_KEYS.od_sph \o RX_KEYS.od_cyl \o RX_KEYS.od_axis \o RX_KEYS.od_add
    \o RX_KEYS.os_sph \o RX_KEYS.os_cyl \o RX_KEYS.os_axis \o RX_KEYS.os_add
    \o RX_KEYS.pd_od \o RX_KEYS.pd_os \o RX_KEYS.pres_type
    \o <<<<"I","n","d","e","x"," ","L","e","n","s">>, <<"L","e","n","s"," ","G","r","o","u","p">>, <<"S","i","n","g","l","e"," ","P","D">>, <<"P","D">>>>

NewLabelOrder(orderId) == [orderId |-> orderId, name |-> <<>>, bundles |-> <<>>]

LabFoldOrder(o, r) ==
  LET o1 == IF o.name = <<>> /\ NonBlank(r, NAME) THEN [o EXCEPT !.name = r[NAME]] ELSE o
      bundleId == r[BUNDLE_ID]
      bs == IF IndexOfKey(o1.bundles, bundleId, BundleKeyOf) = 0
            THEN Append(o1.bundles, NewBundle(bundleId)) ELSE o1.bundles
      j == IndexOfKey(bs, bundleId, BundleKeyOf)
  IN [o1 EXCEPT !.bundles = [bs EXCEPT ![j] = AggFoldBundle(@, r, keysToKeep)]]

LabFoldRow(orderMap, r) ==
  LET orderId == r[ORDER_ID]
      om == IF IndexOfKey(orderMap, orderId, OrderKey) = 0
            THEN Append(orderMap, NewLabelOrder(orderId)) ELSE orderMap
      i == IndexOfKey(om, orderId, OrderKey)
  IN [om EXCEPT ![i] = LabFoldOrder(@, r)]

RECURSIVE LabFold(_, _)
LabFold(orderMap, rows) ==
  IF rows = <<>> THEN orderMap ELSE LabFold(LabFoldRow(orderMap, Head(rows)), Tail(rows))

(***************************************************************************)
(* Counting and page generation of handleLabels.                           *)
(***************************************************************************)
\* a query parameter holding an integer: <<>> when absent, <<n>> when given
Absent == <<>>
Given(n) == <<n>>

\* startRaw ? Number.parseInt(startRaw, 10) : 0, then the range repair
StartOf(startRaw) == IF startRaw = Absent \/ startRaw[1] < 0 THEN 0 ELSE startRaw[1]

LimitOf(limitRaw) ==
  IF limitRaw = Absent \/ limitRaw[1] <= 0 THEN DEFAULT_LABEL_LIMIT ELSE limitRaw[1]

\* mode === "order" ? (bundles.length ? [bundles[0]] : []) : bundles
TargetBundles(bundles, mode) ==
  IF mode = <<"o","r","d","e","r">> THEN (IF bundles # <<>> THEN <<bundles[1]>> ELSE <<>>) ELSE bundles

OrderTargets(o, targets) == [k \in 1..Len(targets) |-> [o |-> o, b |-> targets[k]]]

\* the label targets of raw input, in generation order
RECURSIVE RawTargets(_, _)
RawTargets(orderMap, mode) ==
  IF orderMap = <<>> THEN <<>>
  ELSE OrderTargets(Head(orderMap), TargetBundles(SortBundles(Head(orderMap).bundles), mode))
         \o RawTargets(Tail(orderMap), mode)

\* if (mode === "order" && bundleCount < 1) continue; then bundleList
BundleList(bundleCount, mode) ==
  IF mode = <<"o","r","d","e","r">> THEN (IF bundleCount < 1 THEN <<>> ELSE <<1>>)
  ELSE [i \in 1..bundleCount |-> i]

RowTargets(r, bundleList) == [k \in 1..Len(bundleList) |-> [r |-> r, i |-> bundleList[k]]]

\* the label targets of aggregated input, in generation order
RECURSIVE AggTargets(_, _, _)
AggTargets(rows, headers, mode) ==
  IF rows = <<>> THEN <<>>
  ELSE RowTargets(Head(rows), BundleList(inferBundleCount(Head(rows), headers), mode))
         \o AggTargets(Tail(rows), headers, mode)

\* stage "count-labels" for raw input
RECURSIVE CountRaw(_, _)
CountRaw(orderMap, mode) ==
  IF orderMap = <<>> THEN 0
  ELSE (IF mode = <<"o","r","d","e","r">>
        THEN (IF Head(orderMap).bundles # <<>> THEN 1 ELSE 0)
        ELSE Len(Head(orderMap).bundles))
       + CountRaw(Tail(orderMap), mode)

\* what one aggregated row adds to totalLabels
RowLabels(bundleCount, mode) ==
  IF bundleCount >= 1 THEN (IF mode = <<"o","r","d","e","r">> THEN 1 ELSE bundleCount) ELSE 0

\* stage "count-labels" for aggregated input
RECURSIVE CountAgg(_, _, _)
CountAgg(rows, headers, mode) ==
  IF rows = <<>> THEN 0
  ELSE RowLabels(inferBundleCount(Head(rows), headers), mode)
         + CountAgg(Tail(rows), headers, mode)

\* name || "-"
NameOrDash(name) == IF name # <<>> THEN name ELSE <<"-">>

RECURSIVE Pow10(_)
Pow10(k) == IF k = 0 THEN 1 ELSE 10 * Pow10(k - 1)

RECURSIVE ZeroPad(_, _)
ZeroPad(ds, width) == IF Len(ds) >= width THEN ds ELSE ZeroPad(<<"0">> \o ds, width)

\* n / 2 of a finite number: five times the decimal digits, one place further right
HalfOf(n) ==
  LET places == Len(n.frac) + 1
      scaled == (n.int * Pow10(Len(n.frac)) + DigitsValue(n.frac)) * 5
  IN Num(n.neg, scaled \div Pow10(places),
         StripTrailingZeros(ZeroPad(NatText(scaled % Pow10(places)), places)))

\* the pair for no separate value: both halves of a positive single PD, else two empty texts
HalfPair(n) ==
  IF ~n.nan /\ ~n.neg /\ ~IsZero(n)
  THEN <<ToFixed2(HalfOf(n)), ToFixed2(HalfOf(n))>>
  ELSE <<<<>>, <<>>>>

\* if (pd_od || pd_os) return [pd_od, pd_os]; else the single PD
PDPair(pd_od, pd_os, single) ==
  IF pd_od # <<>> \/ pd_os # <<>> THEN <<pd_od, pd_os>> ELSE HalfPair(Number(single))

getPD(row) ==
  PDPair(fmtTwoDec(pick(row, <<<<"P","D","_","O","D">>, <<"P","D"," ","O","D">>, <<"O","D"," ","P","D">>, <<"P","u","p","i","l","l","a","r","y"," ","D","i","s","t","a","n","c","e"," ","O","D">>>>)),
         fmtTwoDec(pick(row, <<<<"P","D","_","O","S">>, <<"P","D"," ","O","S">>, <<"O","S"," ","P","D">>, <<"P","u","p","i","l","l","a","r","y"," ","D","i","s","t","a","n","c","e"," ","O","S">>>>)),
         pick(row, <<<<"S","i","n","g","l","e"," ","P","D">>, <<"S","i","n","g","l","e","_","P","D">>, <<"P","D">>, <<"P","u","p","i","l","l","a","r","y"," ","D","i","s","t","a","n","c","e">>>>))

\* the data handed to drawLabel for a raw target
RawLabel(t, mode) ==
  [ backer |-> IF mode = <<"o","r","d","e","r">> THEN t.o.orderId ELSE t.b.bundleId,
    name |-> NameOrDash(t.o.name),
    od_sph |-> fmtTwoDec(pick(t.b.rx, RX_KEYS.od_sph)),
    pd |-> getPD(t.b.rx) ]

RawLabels(targets, mode) == [k \in DOMAIN targets |-> RawLabel(targets[k], mode)]

\* mode === "order" ? orderId : bundleId || `${orderId}-${i}`
AggBacker(orderId, bundleId, i, mode) ==
  IF mode = <<"o","r","d","e","r">> THEN orderId
  ELSE IF bundleId # <<>> THEN bundleId
  ELSE orderId \o <<"-">> \o NatText(i)

\* the data handed to drawLabel for a target of an aggregated row
AggLabel(t, mode) ==
  [ backer |-> AggBacker(t.r[ORDER_ID], pickFromBundle(t.r, <<BUNDLE_ID>>, t.i), t.i, mode),
    name |-> NameOrDash(IF NAME \in DOMAIN t.r THEN t.r[NAME] ELSE <<>>),
    od_sph |-> fmtTwoDec(pickFromBundle(t.r, RX_KEYS.od_sph, t.i)),
    pd |-> << fmtTwoDec(pickFromBundle(t.r, RX_KEYS.pd_od, t.i)),
              fmtTwoDec(pickFromBundle(t.r, RX_KEYS.pd_os, t.i)) >> ]

AggLabels(targets, mode) == [k \in DOMAIN targets |-> AggLabel(targets[k], mode)]

\* the loop variables of stage "generate-pages"; stopped once `break outer` is taken
GenStart == [idx |-> 0, generated |-> 0, stopped |-> FALSE, pages |-> <<>>]

\* the loop body skipping the target at position start as well
GenStep_SkipInclusive(st, label, start, limit) ==
  IF st.stopped THEN st
  ELSE IF st.idx <= start THEN [st EXCEPT !.idx = @ + 1]
  ELSE IF st.generated >= limit THEN [st EXCEPT !.stopped = TRUE]
  ELSE [st EXCEPT !.idx = @ + 1, !.generated = @ + 1, !.pages = Append(@, label)]

\* the loop body stopping one page after the limit
GenStep_LimitInclusive(st, label, start, limit) ==
  IF st.stopped THEN st
  ELSE IF st.idx < start THEN [st EXCEPT !.idx = @ + 1]
  ELSE IF st.generated > limit THEN [st EXCEPT !.stopped = TRUE]
  ELSE [st EXCEPT !.idx = @ + 1, !.generated = @ + 1, !.pages = Append(@, label)]

\* the loop body for one target: skip before start, stop at limit, else add a page
GenStep(st, label, start, limit) ==
  IF st.stopped THEN st
  ELSE IF st.idx < start THEN [st EXCEPT !.idx = @ + 1]
  ELSE IF st.generated >= limit THEN [st EXCEPT !.stopped = TRUE]
  ELSE [st EXCEPT !.idx = @ + 1, !.generated = @ + 1, !.pages = Append(@, label)]

\* the loop over the targets lo..hi in order, left at `break outer` (the range is
\* halved so that long runs stay shallow)
RECURSIVE GenLoop(_, _, _, _, _, _)
GenLoop(labels, lo, hi, st, start, limit) ==
  IF lo > hi THEN st
  ELSE IF lo = hi THEN GenStep(st, labels[lo], start, limit)
  ELSE LET left == GenLoop(labels, lo, (lo + hi) \div 2, st, start, limit) IN
       IF left.stopped THEN left
       ELSE GenLoop(labels, ((lo + hi) \div 2) + 1, hi, left, start, limit)

\* stage "generate-pages": the pages added to the document
GeneratePages(labels, start, limit) ==
  GenLoop(labels, 1, Len(labels), GenStart, start, limit).pages
(***************************************************************************)
(* The uploads and request parameters the model explores.                  *)
(***************************************************************************)
EMAIL == <<"E","m","a","i","l">>
OD_SPH == <<"O","D"," ","S","P","H">>
LENS_ITEMS == <<"L","e","n","s"," ","I","t","e","m","s">>
CONSTRUCTOR == <<"c","o","n","s","t","r","u","c","t","o","r">>
PD_OD == <<"P","D"," ","O","D">>
SINGLE_PD == <<"S","i","n","g","l","e"," ","P","D">>

BundleIds == {<<"2">>, <<"1","0">>}

\* the cells of a raw line-item row that do not identify its order and bundle
VariantCells ==
  << [item |-> <<"P","r","e","m","i","u","m"," ","F","r","a","m","e"," ">>, qty |-> <<"1">>, name |-> <<" ">>, email |-> <<>>,
      sph |-> <<>>, count |-> <<>>, pd |-> <<"3","2",".","5">>, single |-> <<>>],
     [item |-> <<"1",".","6","7"," ","I","n","d","e","x"," ","L","e","n","s">>, qty |-> <<"3">>, name |-> <<"A","n","n">>, email |-> <<"a","@","x">>,
      sph |-> <<"-","2">>, count |-> <<"7">>, pd |-> <<>>, single |-> <<"6","2">>],
     [item |-> <<"L","e","n","s"," ","C","l","o","t","h">>, qty |-> <<"0">>, name |-> <<"han", "kana">>, email |-> <<>>,
      sph |-> <<"+","1"," ">>, count |-> <<>>, pd |-> <<>>, single |-> <<"0">>] >>

RawCell(c, o, b, v) ==
  IF c = ORDER_ID THEN o
  ELSE IF c = BUNDLE_ID THEN b
  ELSE IF c = LINE_ITEM THEN VariantCells[v].item
  ELSE IF c = QTY THEN VariantCells[v].qty
  ELSE IF c \in {NAME, CONSTRUCTOR} THEN VariantCells[v].name
  ELSE IF c = EMAIL THEN VariantCells[v].email
  ELSE IF c = OD_SPH THEN VariantCells[v].sph
  ELSE IF c = BUNDLE_COUNT THEN VariantCells[v].count
  ELSE IF c = PD_OD THEN VariantCells[v].pd
  ELSE IF c = SINGLE_PD THEN VariantCells[v].single
  ELSE <<>>

RawRow(h, o, b, v) == [c \in Range(h) |-> RawCell(c, o, b, v)]

H_RAW == <<ORDER_ID, BUNDLE_ID, LINE_ITEM, QTY, NAME, EMAIL, OD_SPH, PD_OD, SINGLE_PD>>
H_RAW_COUNT == <<ORDER_ID, BUNDLE_ID, LINE_ITEM, QTY, BUNDLE_COUNT, CONSTRUCTOR>>
H_NO_BUNDLE == <<ORDER_ID, LINE_ITEM, QTY, NAME>>
H_NO_ORDER_BUNDLE == <<LINE_ITEM, QTY, NAME>>
H_NO_QTY == <<ORDER_ID, BUNDLE_ID, LINE_ITEM>>
H_AGG ==
  <<ORDER_ID, BUNDLE_COUNT, NAME, BundleKey(BUNDLE_ID, 1), BundleKey(LENS_ITEMS, 1),
    BundleKey(PD_OD, 1), BundleKey(BUNDLE_ID, 2), BundleKey(SINGLE_PD, 2)>>
H_AGG_NO_ORDER == <<BUNDLE_COUNT, BundleKey(BUNDLE_ID, 1)>>
\* a hand-made table whose only bundle column is tagged in lower case, for bundle 2
LENS_TAG_2 == <<"L","e","n","s"," ","I","t","e","m","s"," ","(","b","u","n","d","l","e"," "," ","2",")">>
H_AGG_TAG == <<ORDER_ID, LENS_TAG_2>>

RawHeaders == {H_RAW, H_RAW_COUNT, H_NO_BUNDLE, H_NO_ORDER_BUNDLE, H_NO_QTY}
Headers == RawHeaders \cup {H_AGG, H_AGG_NO_ORDER, H_AGG_TAG}

AggRow(h, cells) == [c \in Range(h) |-> IF c \in DOMAIN cells THEN cells[c] ELSE <<>>]

AggCells ==
  { (ORDER_ID :> <<"A">>) @@ (BUNDLE_COUNT :> <<"2",".","5">>) @@ (NAME :> <<"A","n","n">>)
      @@ (BundleKey(BUNDLE_ID, 1) :> <<"1","0">>) @@ (BundleKey(LENS_ITEMS, 1) :> <<"1",".","6","7"," ","I","n","d","e","x"," ","L","e","n","s"," ","x","3">>)
      @@ (BundleKey(PD_OD, 1) :> <<"3","0">>) @@ (BundleKey(BUNDLE_ID, 2) :> <<"2">>)
      @@ (BundleKey(SINGLE_PD, 2) :> <<"6","2">>),
    (ORDER_ID :> <<"B">>) @@ (NAME :> <<"hangul">>) @@ (BundleKey(BUNDLE_ID, 1) :> <<"2">>),
    (ORDER_ID :> <<"A">>) @@ (BUNDLE_COUNT :> <<"0">>) @@ (NAME :> <<"Z","o">> \o <<"eacute">>),
    (ORDER_ID :> <<"C">>) @@ (BUNDLE_COUNT :> <<"2","0","1">>) @@ (NAME :> <<"nbsp">>) }

TagCells ==
  { (ORDER_ID :> <<"A">>) @@ (LENS_TAG_2 :> <<"C","l","e","a","r"," ","L","e","n","s">>), (ORDER_ID :> <<"B">>) }

\* the rows a file with header h may hold
RowsOf(h) ==
  IF h = H_RAW THEN { RawRow(h, <<"A">>, <<"2">>, 1), RawRow(h, <<"A">>, <<"2">>, 3),
                       RawRow(h, <<"A">>, <<"1","0">>, 2), RawRow(h, <<"A">>, <<"1","0">>, 3) }
                     \cup { RawRow(h, <<"B">>, b, 2) : b \in BundleIds }
  ELSE IF h = H_RAW_COUNT THEN { RawRow(h, <<"A">>, b, v) : b \in BundleIds, v \in {1, 2} }
  ELSE IF h \in RawHeaders THEN { RawRow(h, <<"A">>, <<"2">>, 1), RawRow(h, <<"B">>, <<"1","0">>, 2) }
  ELSE IF h = H_AGG_TAG THEN { AggRow(h, cells) : cells \in TagCells }
  ELSE { AggRow(h, cells) : cells \in AggCells }

\* the drop and drop_cols query parameters (an empty text is an absent parameter)
DropCols == {<<"F","r","a","m","e"," ","I","t","e","m","s">>, <<" ","N","a","m","e">>, OD_SPH, BUNDLE_ID, <<" ">>}
DropChoices ==
  { [drop |-> <<>>, dropCols |-> {}], [drop |-> <<"D","e","f","a","u","l","t">>, dropCols |-> DropCols],
    [drop |-> <<"n","o","n","e">>, dropCols |-> DropCols], [drop |-> <<"c","u","s","t","o","m">>, dropCols |-> {}],
    [drop |-> <<"c","u","s","t","o","m">>, dropCols |-> DropCols] }

\* the mode, start and limit query parameters
ModeParams == {<<"b","u","n","d","l","e">>, <<"o","r","d","e","r">>}
PagingChoices ==
  { [start |-> Absent, limit |-> Absent], [start |-> Given(1), limit |-> Given(2)],
    [start |-> Given(0), limit |-> Given(301)], [start |-> Given(3), limit |-> Absent],
    [start |-> Given(0), limit |-> Given(300)] }

(***************************************************************************)
(* Script detection and the font needs of a label request.                 *)
(***************************************************************************)
InRange(cp, lo, hi) == cp >= lo /\ cp <= hi

isHiraganaKatakana(ch) ==
  LET cp == CodePoint(ch) IN
  InRange(cp, 12352, 12543) \/ InRange(cp, 12784, 12799) \/ InRange(cp, 65382, 65437)

isHangul(ch) ==
  LET cp == CodePoint(ch) IN
  \/ InRange(cp, 44032, 55215) \/ InRange(cp, 4352, 4607) \/ InRange(cp, 12592, 12687)
  \/ InRange(cp, 43360, 43391) \/ InRange(cp, 55216, 55295)

isCJKUnified(ch) ==
  LET cp == CodePoint(ch) IN
  \/ InRange(cp, 19968, 40959) \/ InRange(cp, 13312, 19903) \/ InRange(cp, 131072, 173791)
  \/ InRange(cp, 173824, 177983) \/ InRange(cp, 177984, 178207)
  \/ InRange(cp, 178208, 183983) \/ InRange(cp, 183984, 191471)
  \/ InRange(cp, 196608, 201551) \/ InRange(cp, 63744, 64255)
  \/ InRange(cp, 194560, 195103)

isAsciiPrintable(ch) == InRange(CodePoint(ch), 32, 126)

isAsciiString(s) == \A i \in DOMAIN s : isAsciiPrintable(s[i])

NoNeeds == [jp |-> FALSE, kr |-> FALSE, sc |-> FALSE, other |-> FALSE, nonAscii |-> FALSE]

\* the flags the scan loop raises for the characters of a set (flags are only ever raised)
CharsNeeds(chars) ==
  [ nonAscii |-> \E ch \in chars : ~isAsciiPrintable(ch),
    jp |-> \E ch \in chars : ~isAsciiPrintable(ch) /\ isHiraganaKatakana(ch),
    kr |-> \E ch \in chars : /\ ~isAsciiPrintable(ch) /\ ~isHiraganaKatakana(ch)
                             /\ isHangul(ch),
    sc |-> \E ch \in chars : /\ ~isAsciiPrintable(ch) /\ ~isHiraganaKatakana(ch)
                             /\ ~isHangul(ch) /\ isCJKUnified(ch),
    other |-> \E ch \in chars : /\ ~isAsciiPrintable(ch) /\ ~isHiraganaKatakana(ch)
                                /\ ~isHangul(ch) /\ ~isCJKUnified(ch) ]

OrNeeds(a, b) ==
  [jp |-> a.jp \/ b.jp, kr |-> a.kr \/ b.kr, sc |-> a.sc \/ b.sc,
   other |-> a.other \/ b.other, nonAscii |-> a.nonAscii \/ b.nonAscii]

\* scanTextForFonts(text, needs)
scanTextForFonts(text, needs) == OrNeeds(needs, CharsNeeds(Range(text)))

\* the needs after every text of a set has been scanned
ScanAll(texts) == CharsNeeds(UNION { Range(t) : t \in texts })

\* the texts of one raw row scanned whatever the maps hold
RowTexts(r) == {r[ORDER_ID], r[BUNDLE_ID], r[LINE_ITEM]}

\* the values stored in b.rx: each was scanned when it was stored, and none is replaced
RxTexts(rx) == { rx[k] : k \in DOMAIN rx }

\* the stored name and Rx values of an order (o.name is scanned when it is stored)
OrderTexts(o) == {o.name} \cup UNION { RxTexts(o.bundles[j].rx) : j \in DOMAIN o.bundles }

\* the texts stage "scan-text" scans for raw input
RawScanned(rows, orderMap) ==
  UNION { RowTexts(rows[i]) : i \in DOMAIN rows }
    \cup UNION { OrderTexts(orderMap[i]) : i \in DOMAIN orderMap }

ScanRaw(rows) == ScanAll(RawScanned(rows, LabFold(<<>>, rows)))

\* the texts scanned for bundle i of an aggregated row
AggBundleTexts(r, i) ==
  { pickFromBundle(r, <<BUNDLE_ID>>, i), pickFromBundle(r, <<LENS_ITEMS>>, i),
    pickFromBundle(r, <<<<"C","o","a","t","i","n","g"," ","I","t","e","m","s">>>>, i), pickFromBundle(r, <<<<"I","n","d","e","x"," ","L","e","n","s">>>>, i),
    pickFromBundle(r, <<<<"L","e","n","s"," ","G","r","o","u","p">>>>, i), pickFromBundle(r, RX_KEYS.pres_type, i),
    pickFromBundle(r, RX_KEYS.od_sph, i), pickFromBundle(r, RX_KEYS.od_cyl, i),
    pickFromBundle(r, RX_KEYS.od_axis, i), pickFromBundle(r, RX_KEYS.od_add, i),
    pickFromBundle(r, RX_KEYS.os_sph, i), pickFromBundle(r, RX_KEYS.os_cyl, i),
    pickFromBundle(r, RX_KEYS.os_axis, i), pickFromBundle(r, RX_KEYS.os_add, i),
    pickFromBundle(r, RX_KEYS.pd_od, i), pickFromBundle(r, RX_KEYS.pd_os, i) }

\* the scan of an aggregated row without its name
AggRowTexts_NameUnscanned(r) == {r[ORDER_ID]}

\* the order id and the name of an aggregated row; a blank name is not scanned
AggRowTexts(r) == {r[ORDER_ID], IF NonBlank(r, NAME) THEN r[NAME] ELSE <<>>}

\* the texts scanned for one aggregated row and its bundle list
AggRowScanned(r, bundleList) ==
  AggRowTexts(r) \cup UNION { AggBundleTexts(r, bundleList[k]) : k \in DOMAIN bundleList }

\* the texts stage "scan-text" scans for aggregated input
AggScanned(rows, headers, mode) ==
  UNION { AggRowScanned(rows[n], BundleList(inferBundleCount(rows[n], headers), mode)) :
            n \in DOMAIN rows }

ScanAgg(rows, headers, mode) == ScanAll(AggScanned(rows, headers, mode))

\* the needs once the scan is complete
NeedsOf(rows, headers, mode, aggregated) ==
  IF aggregated THEN ScanAgg(rows, headers, mode) ELSE ScanRaw(rows)

\* the font files of the worker's assets
FONT_FILES ==
  [ jp |-> <<"/","f","o","n","t","s","/","N","o","t","o","S","a","n","s","J","P",".","t","t","f">>, sc |-> <<"/","f","o","n","t","s","/","N","o","t","o","S","a","n","s","S","C",".","t","t","f">>,
    tc |-> <<"/","f","o","n","t","s","/","N","o","t","o","S","a","n","s","T","C",".","t","t","f">>, kr |-> <<"/","f","o","n","t","s","/","N","o","t","o","S","a","n","s","K","R",".","t","t","f">> ]

\* every script font loaded as soon as one character is outside printable ASCII
FontFiles_AllScripts(needs) ==
  IF needs.nonAscii THEN {FONT_FILES.jp, FONT_FILES.sc, FONT_FILES.kr} ELSE {}

\* the files whose loads are started once the document exists
FontFiles(needs) ==
  IF needs.nonAscii
  THEN (IF needs.jp THEN {FONT_FILES.jp} ELSE {})
         \cup (IF needs.sc \/ needs.other THEN {FONT_FILES.sc} ELSE {})
         \cup (IF needs.kr THEN {FONT_FILES.kr} ELSE {})
  ELSE {}

(***************************************************************************)
(* Text runs: the font of each character, the runs drawn and measured.     *)
(***************************************************************************)
NoFont == "none"
Missing == "missing"

\* the fonts record of line 976 for a set of embedded script fonts
FontsOf(loaded) ==
  [ latin |-> "latin",
    jp |-> IF "jp" \in loaded THEN "jp" ELSE NoFont,
    sc |-> IF "sc" \in loaded THEN "sc" ELSE NoFont,
    kr |-> IF "kr" \in loaded THEN "kr" ELSE NoFont,
    fallback |-> IF "sc" \in loaded THEN "sc"
                 ELSE IF "jp" \in loaded THEN "jp"
                 ELSE IF "kr" \in loaded THEN "kr" ELSE NoFont ]

\* a || b on font objects
OrFont(a, b) == IF a # NoFont THEN a ELSE b

\* pickFontForChar(fonts, ch); Missing stands for the thrown error
pickFontForChar(fs, ch) ==
  IF isAsciiPrintable(ch) THEN fs.latin
  ELSE IF isHiraganaKatakana(ch) /\ fs.jp # NoFont THEN fs.jp
  ELSE IF isHangul(ch) /\ fs.kr # NoFont THEN fs.kr
  ELSE IF isCJKUnified(ch) /\ fs.sc # NoFont THEN fs.sc
  ELSE IF OrFont(fs.fallback, OrFont(fs.sc, OrFont(fs.jp, fs.kr))) = NoFont THEN Missing
  ELSE OrFont(fs.fallback, OrFont(fs.sc, OrFont(fs.jp, fs.kr)))

\* glyph advances in thousandths of the font size: Helvetica's for the Latin letters, one
\* full or nearly full em for the script fonts, whose Latin-range glyphs are narrower
Advance(font, ch) ==
  IF font = "latin" THEN (IF ch \in {" ", "."} THEN 278 ELSE 667)
  ELSE IF isHiraganaKatakana(ch) \/ isHangul(ch) \/ isCJKUnified(ch)
       THEN (IF font = "kr" THEN 920 ELSE 1000)
  ELSE (IF font = "sc" THEN 554 ELSE IF font = "jp" THEN 562 ELSE 548)

\* the kerning of two neighbouring glyphs of one run (Helvetica kerns A and V)
Kerning(font, a, b) ==
  IF font = "latin" /\ <<a, b>> \in {<<"A", "V">>, <<"V", "A">>} THEN -71 ELSE 0

RECURSIVE GlyphSum(_, _, _)
GlyphSum(font, buf, i) ==
  IF i > Len(buf) THEN 0
  ELSE Advance(font, buf[i]) + (IF i > 1 THEN Kerning(font, buf[i - 1], buf[i]) ELSE 0)
         + GlyphSum(font, buf, i + 1)

\* font.widthOfTextAtSize(buf, size), in units of 1/2000 point so that halves are exact:
\* the width depends on the font and on which glyphs share the run
widthOfTextAtSize(font, buf, size) == 2 * size * GlyphSum(font, buf, 1)

\* replace(/[\r\n\t]+/g, " ")
RECURSIVE BreaksToSpace(_)
BreaksToSpace(s) ==
  IF s = <<>> THEN <<>>
  ELSE IF Head(s) \in {"\r", "\n", "\t"}
       THEN (IF Len(s) > 1 /\ s[2] \in {"\r", "\n", "\t"}
             THEN BreaksToSpace(Tail(s))
             ELSE <<" ">> \o BreaksToSpace(Tail(s)))
  ELSE <<Head(s)>> \o BreaksToSpace(Tail(s))

\* replace(/\s{2,}/g, " ")
RECURSIVE SqueezeSpaces(_)
SqueezeSpaces(s) ==
  IF s = <<>> THEN <<>>
  ELSE IF IsSpace(Head(s)) /\ Len(s) > 1 /\ IsSpace(s[2])
       THEN (IF Len(s) > 2 /\ IsSpace(s[3])
             THEN SqueezeSpaces(Tail(s))
             ELSE <<" ">> \o SqueezeSpaces(Tail(Tail(s))))
  ELSE <<Head(s)>> \o SqueezeSpaces(Tail(s))

\* normalizeText(val) for a string
normalizeText(val) == Trim(SqueezeSpaces(BreaksToSpace(val)))

\* ---- drawTextRuns ----
DrawStart(x) == [cursorX |-> x, buf |-> <<>>, curFont |-> NoFont, drawn |-> <<>>, thrown |-> FALSE]

\* flush of drawTextRuns: the buffered run is drawn at the cursor, which then advances
DrawFlush(st, size) ==
  IF st.buf = <<>> \/ st.curFont = NoFont THEN st
  ELSE [st EXCEPT !.drawn = Append(@, [text |-> st.buf, x |-> st.cursorX, font |-> st.curFont]),
                  !.cursorX = @ + widthOfTextAtSize(st.curFont, st.buf, size),
                  !.buf = <<>>]

\* the body of the character loop of drawTextRuns once the font f is picked
DrawChar(st, f, ch, size) ==
  IF st.curFont # NoFont /\ f # st.curFont
  THEN [DrawFlush(st, size) EXCEPT !.curFont = f, !.buf = Append(@, ch)]
  ELSE [st EXCEPT !.curFont = f, !.buf = Append(@, ch)]

\* the turn of the loop for the character ch, whose font is f
DrawTurn(st, ch, size, f) ==
  IF st.thrown THEN st
  ELSE IF f = Missing THEN [st EXCEPT !.thrown = TRUE]
  ELSE DrawChar(st, f, ch, size)

\* the character loop over text[lo..hi], evaluated half by half
RECURSIVE DrawLoop(_, _, _, _, _, _)
DrawLoop(fs, text, lo, hi, st, size) ==
  IF lo > hi THEN st
  ELSE IF lo = hi THEN DrawTurn(st, text[lo], size, pickFontForChar(fs, text[lo]))
  ELSE LET left == DrawLoop(fs, text, lo, (lo + hi) \div 2, st, size) IN
       IF left.thrown THEN left
       ELSE DrawLoop(fs, text, ((lo + hi) \div 2) + 1, hi, left, size)

\* the page once the loop has ended in the state st
DrawResult(st, size) ==
  IF st.thrown THEN [drawn |-> <<>>, thrown |-> TRUE]
  ELSE [drawn |-> DrawFlush(st, size).drawn, thrown |-> FALSE]

\* drawTextRuns(page, fonts, text, x, y, size, color): the runs added to the page, each
\* with its text, its font and its x, or thrown when a character has no font
drawTextRuns(fs, text, x, size) ==
  IF text = <<>> THEN [drawn |-> <<>>, thrown |-> FALSE]
  ELSE IF isAsciiString(text)
       THEN [drawn |-> <<[text |-> text, x |-> x, font |-> fs.latin]>>, thrown |-> FALSE]
  ELSE DrawResult(DrawLoop(fs, text, 1, Len(text), DrawStart(x), size), size)

\* ---- measureTextRuns ----
MeasureStart == [width |-> 0, buf |-> <<>>, curFont |-> NoFont, runs |-> <<>>, thrown |-> FALSE]

\* the final flush left out: the last run is never added to the width
MeasureFlush_Off(st, size) == st

\* flush of measureTextRuns: the width of the buffered run is added; runs records the
\* buffers measured and their fonts
MeasureFlush(st, size) ==
  IF st.buf = <<>> \/ st.curFont = NoFont THEN st
  ELSE [st EXCEPT !.width = @ + widthOfTextAtSize(st.curFont, st.buf, size),
                  !.runs = Append(@, [text |-> st.buf, font |-> st.curFont]),
                  !.buf = <<>>]

\* the body of the character loop of measureTextRuns once the font f is picked
MeasureChar(st, f, ch, size) ==
  IF st.curFont # NoFont /\ f # st.curFont
  THEN [MeasureFlush(st, size) EXCEPT !.curFont = f, !.buf = Append(@, ch)]
  ELSE [st EXCEPT !.curFont = f, !.buf = Append(@, ch)]

\* the turn of the loop for the character ch, whose font is f
MeasureTurn(st, ch, size, f) ==
  IF st.thrown THEN st
  ELSE IF f = Missing THEN [st EXCEPT !.thrown = TRUE]
  ELSE MeasureChar(st, f, ch, size)

\* the character loop over text[lo..hi], evaluated half by half
RECURSIVE MeasureLoop(_, _, _, _, _, _)
MeasureLoop(fs, text, lo, hi, st, size) ==
  IF lo > hi THEN st
  ELSE IF lo = hi THEN MeasureTurn(st, text[lo], size, pickFontForChar(fs, text[lo]))
  ELSE LET left == MeasureLoop(fs, text, lo, (lo + hi) \div 2, st, size) IN
       IF left.thrown THEN left
       ELSE MeasureLoop(fs, text, ((lo + hi) \div 2) + 1, hi, left, size)

\* the width once the loop has ended in the state st
MeasureResult(st, size) ==
  IF st.thrown THEN [width |-> 0, runs |-> <<>>, thrown |-> TRUE]
  ELSE [width |-> MeasureFlush(st, size).width, runs |-> MeasureFlush(st, size).runs,
        thrown |-> FALSE]

\* measureTextRuns(fonts, text, size) with the runs it measured
MeasuredRuns(fs, text, size) ==
  IF text = <<>> THEN [width |-> 0, runs |-> <<>>, thrown |-> FALSE]
  ELSE IF isAsciiString(text)
       THEN [width |-> widthOfTextAtSize(fs.latin, text, size),
             runs |-> <<[text |-> text, font |-> fs.latin]>>, thrown |-> FALSE]
  ELSE MeasureResult(MeasureLoop(fs, text, 1, Len(text), MeasureStart, size), size)

measureTextRuns(fs, text, size) == MeasuredRuns(fs, text, size).width

(***************************************************************************)
(* Line layout: shrink to fit, truncate, wrap.                             *)
(***************************************************************************)
ELLIPSIS == <<".",".",".">>

\* the default floor of fitLine
minSize == 4

\* the binary search of truncateToFit: the least count of leading characters that, with
\* the ellipsis, no longer fits (the length of the text when every shorter prefix fits)
RECURSIVE TruncSearch(_, _, _, _, _, _)
TruncSearch(fs, chars, size, maxWidth, lo, hi) ==
  IF lo < hi
  THEN IF measureTextRuns(fs, SubSeq(chars, 1, (lo + hi) \div 2) \o ELLIPSIS, size) <= maxWidth
       THEN TruncSearch(fs, chars, size, maxWidth, ((lo + hi) \div 2) + 1, hi)
       ELSE TruncSearch(fs, chars, size, maxWidth, lo, (lo + hi) \div 2)
  ELSE lo

\* the cut taken at the end of the search itself, not one character before it
truncateToFit_NoStepBack(fs, text, size, maxWidth) ==
  IF measureTextRuns(fs, text, size) <= maxWidth THEN text
  ELSE IF measureTextRuns(fs, ELLIPSIS, size) > maxWidth THEN ELLIPSIS
  ELSE SubSeq(text, 1, TruncSearch(fs, text, size, maxWidth, 0, Len(text))) \o ELLIPSIS

\* truncateToFit(fonts, text, size, maxWidth)
truncateToFit(fs, text, size, maxWidth) ==
  IF measureTextRuns(fs, text, size) <= maxWidth THEN text
  ELSE IF measureTextRuns(fs, ELLIPSIS, size) > maxWidth THEN ELLIPSIS
  ELSE SubSeq(text, 1, Max(0, TruncSearch(fs, text, size, maxWidth, 0, Len(text)) - 1))
         \o ELLIPSIS

\* the loop of fitLine from the size curSize down
RECURSIVE FitFrom(_, _, _, _, _)
FitFrom(fs, text, curSize, maxWidth, floor) ==
  IF curSize >= floor
  THEN IF measureTextRuns(fs, text, curSize) <= maxWidth
       THEN [text |-> text, size |-> curSize]
       ELSE FitFrom(fs, text, curSize - 1, maxWidth, floor)
  ELSE [text |-> truncateToFit(fs, text, floor, maxWidth), size |-> floor]

\* fitLine(fonts, text, size, maxWidth, minSize), the floor given as the last argument
fitLine(fs, text, size, maxWidth, floor) == FitFrom(fs, text, size, maxWidth, floor)

\* text.split(/\s+/).filter(Boolean)
RECURSIVE SplitWordsFrom(_, _, _)
SplitWordsFrom(text, word, out) ==
  IF text = <<>> THEN (IF word = <<>> THEN out ELSE Append(out, word))
  ELSE IF IsSpace(Head(text))
       THEN SplitWordsFrom(Tail(text), <<>>, IF word = <<>> THEN out ELSE Append(out, word))
  ELSE SplitWordsFrom(Tail(text), Append(word, Head(text)), out)

SplitWords(text) == SplitWordsFrom(text, <<>>, <<>>)

WrapStart == [lines |-> <<>>, current |-> <<>>, overflow |-> FALSE, stopped |-> FALSE]

\* the line is closed and the word w opens the next one; on the last line of the budget
\* the words still to come are appended and the loop is left
WrapBreak(st, words, i, maxLines) ==
  IF Len(st.lines) + 1 >= maxLines - 1
  THEN IF i < Len(words)
       THEN [lines |-> Append(st.lines, st.current),
             current |-> words[i] \o <<" ">> \o Join(SubSeq(words, i + 1, Len(words)), <<" ">>),
             overflow |-> TRUE, stopped |-> TRUE]
       ELSE [lines |-> Append(st.lines, st.current), current |-> words[i],
             overflow |-> st.overflow, stopped |-> TRUE]
  ELSE [lines |-> Append(st.lines, st.current), current |-> words[i],
        overflow |-> st.overflow, stopped |-> FALSE]

\* one turn of the word loop of buildWrappedLines
WrapStep(fs, st, words, i, size, maxWidth, maxLines) ==
  IF st.current = <<>> THEN [st EXCEPT !.current = words[i]]
  ELSE IF measureTextRuns(fs, st.current \o <<" ">> \o words[i], size) <= maxWidth
       THEN [st EXCEPT !.current = st.current \o <<" ">> \o words[i]]
  ELSE WrapBreak(st, words, i, maxLines)

RECURSIVE WrapLoop(_, _, _, _, _, _, _)
WrapLoop(fs, st, words, i, size, maxWidth, maxLines) ==
  IF i > Len(words) \/ st.stopped THEN st
  ELSE WrapLoop(fs, WrapStep(fs, st, words, i, size, maxWidth, maxLines), words, i + 1,
                size, maxWidth, maxLines)

\* if (current) lines.push(current)
WrapPushed(st) == IF st.current # <<>> THEN Append(st.lines, st.current) ELSE st.lines

\* the lines cut to the budget, the last one marked when the text overflowed
WrapMarked(lines, overflow, maxLines) ==
  IF Len(lines) > maxLines
  THEN (IF maxLines >= 1
        THEN [SubSeq(lines, 1, maxLines) EXCEPT ![maxLines] = @ \o ELLIPSIS]
        ELSE <<>>)
  ELSE IF overflow /\ lines # <<>> THEN [lines EXCEPT ![Len(lines)] = @ \o ELLIPSIS]
  ELSE lines

WrapLines(fs, words, size, maxWidth, maxLines) ==
  WrapMarked(WrapPushed(WrapLoop(fs, WrapStart, words, 1, size, maxWidth, maxLines)),
             WrapLoop(fs, WrapStart, words, 1, size, maxWidth, maxLines).overflow, maxLines)

FitAll(fs, lines, size, maxWidth) ==
  [k \in DOMAIN lines |-> fitLine(fs, lines[k], size, maxWidth, minSize)]

\* buildWrappedLines(fonts, raw, size, maxWidth, maxLines)
buildWrappedLines(fs, raw, size, maxWidth, maxLines) ==
  IF normalizeText(raw) = <<>> THEN <<[text |-> <<"-">>, size |-> size]>>
  ELSE IF measureTextRuns(fs, normalizeText(raw), size) <= maxWidth
       THEN <<[text |-> normalizeText(raw), size |-> size]>>
  ELSE IF SplitWords(normalizeText(raw)) = <<>> THEN <<[text |-> <<"-">>, size |-> size]>>
  ELSE FitAll(fs, WrapLines(fs, SplitWords(normalizeText(raw)), size, maxWidth, maxLines),
              size, maxWidth)
(***************************************************************************)
(* The worker as a state machine: a file is composed, a request for it is  *)
(* received, and the handler runs from one suspension point to the next.   *)
(***************************************************************************)
VARIABLES
  builtinDrop,  \* the module-level Set AGGREGATE_DROP_DEFAULT
  file,         \* the uploaded table: header and parsed rows
  pc,           \* "compose", "agg_form", "lab_form", "lab_pdf", "lab_pages", "done"
  req,          \* the query parameters of the request being served
  dropSet,      \* handleAggregate's dropSet
  plan,         \* handleLabels' locals once the labels are counted
  resp,         \* the response
  probe,        \* the subject of a pure-function check (SpecFold, SpecPages)
  fonts         \* the font files the label request has asked the assets for

vars == <<builtinDrop, file, pc, req, dropSet, plan, resp, probe, fonts>>

NoReq == [op |-> "none", drop |-> <<>>, dropCols |-> {}, mode |-> <<>>,
          start |-> Absent, limit |-> Absent]
NoPlan == [aggregated |-> FALSE, labels |-> <<>>, total |-> 0, needs |-> NoNeeds]
NoResp == [status |-> 0, error |-> "", column |-> <<>>, columns |-> <<>>, out |-> <<>>,
           rows |-> <<>>, pages |-> <<>>]

NoProbe == [done |-> FALSE, item |-> <<>>, qty |-> <<>>, bundle |-> NewBundle(<<>>)]

Reject(error, column) == [NoResp EXCEPT !.status = 400, !.error = error, !.column = column]

Init ==
  /\ builtinDrop = AGGREGATE_DROP_DEFAULT
  /\ file \in { [headers |-> h, rows |-> <<>>] : h \in Headers }
  /\ pc = "compose"
  /\ req = NoReq
  /\ dropSet = {}
  /\ plan = NoPlan
  /\ resp = NoResp
  /\ probe = NoProbe
  /\ fonts = {}

\* one more parsed row in the file being composed
AddRow ==
  /\ pc = "compose"
  /\ Len(file.rows) < MaxRows
  /\ \E r \in RowsOf(file.headers) : file' = [file EXCEPT !.rows = Append(@, r)]
  /\ UNCHANGED <<builtinDrop, pc, req, dropSet, plan, resp, probe, fonts>>

\* the last missing required column instead of the first
FirstMissing_Last(row) ==
  { RequiredColumns[i] : i \in { j \in DOMAIN RequiredColumns :
      /\ RequiredColumns[j] \notin DOMAIN row
      /\ \A k \in (j + 1)..Len(RequiredColumns) : RequiredColumns[k] \in DOMAIN row } }

\* the first missing required column, as a set (empty when none is missing)
FirstMissing(row) ==
  { RequiredColumns[i] : i \in { j \in DOMAIN RequiredColumns :
      /\ RequiredColumns[j] \notin DOMAIN row
      /\ \A k \in 1..(j - 1) : RequiredColumns[k] \in DOMAIN row } }

\* the drop set being the module-level Set itself: the caller's names stay in it
BuiltinAfterRequest_Aliased(builtin, dropParam, dropCols) ==
  IF DropModeOf(dropParam) = <<"c","u","s","t","o","m">> THEN builtin \cup CustomDropNames(dropCols) ELSE builtin

\* what building dropSet leaves in the module-level Set: it is only iterated
BuiltinAfterRequest(builtin, dropParam, dropCols) == builtin

\* handleAggregate up to `await request.formData()`
AggregateStart ==
  /\ pc = "compose"
  /\ \E d \in DropChoices :
       /\ req' = [NoReq EXCEPT !.op = "aggregate", !.drop = d.drop, !.dropCols = d.dropCols]
       /\ dropSet' = BuildDropSet(builtinDrop, d.drop, d.dropCols)
       /\ builtinDrop' = BuiltinAfterRequest(builtinDrop, d.drop, d.dropCols)
  /\ pc' = "agg_form"
  /\ UNCHANGED <<file, plan, resp, probe, fonts>>

\* the 200 response of handleAggregate for validated rows whose first row has these keys
AggregateResponse(allColumns, rows, drops) ==
  LET rxColumns == RxColumnsOf(allColumns, drops)
      orderLevelCols == OrderLevelColsOf(allColumns, drops)
      orderMap == AggFold(<<>>, rows, orderLevelCols, rxColumns)
      out == [i \in DOMAIN orderMap |-> RowOutOf(orderMap[i], rxColumns, drops)]
      columns == OutputColumns(orderMap, orderLevelCols, rxColumns, drops)
  IN [NoResp EXCEPT !.status = 200, !.columns = columns, !.out = out,
                    !.rows = [i \in DOMAIN out |-> CsvRow(out[i], columns)]]

\* the 200 response of handleAggregate for validated rows
AggregateResult(rows, drops) == AggregateResponse(file.headers, rows, drops)

\* handleAggregate from the parsed form to its response
AggregateProcess ==
  /\ pc = "agg_form"
  /\ resp' = IF file.rows = <<>> THEN Reject("Empty CSV", <<>>)
             ELSE IF FirstMissing(file.rows[1]) # {}
                  THEN Reject("Missing required column",
                              CHOOSE c \in FirstMissing(file.rows[1]) : TRUE)
             ELSE AggregateResult(file.rows, dropSet)
  /\ pc' = "done"
  /\ UNCHANGED <<builtinDrop, file, req, dropSet, plan, probe, fonts>>

\* handleLabels up to `await request.formData()`
LabelsStart ==
  /\ pc = "compose"
  /\ \E m \in ModeParams, p \in PagingChoices :
       /\ req' = [NoReq EXCEPT !.op = "labels", !.mode = m, !.start = p.start, !.limit = p.limit]
       /\ IF LimitOf(p.limit) > MAX_LABEL_LIMIT
          THEN /\ resp' = Reject("limit too large", <<>>)
               /\ pc' = "done"
          ELSE /\ resp' = resp
               /\ pc' = "lab_form"
  /\ UNCHANGED <<builtinDrop, file, dropSet, plan, probe, fonts>>

\* stage "count-labels": totalLabels
TotalLabels(rows, headers, mode, aggregated) ==
  IF aggregated THEN CountAgg(rows, headers, mode) ELSE CountRaw(LabFold(<<>>, rows), mode)

\* the labels in generation order
LabelsOf(rows, headers, mode, aggregated) ==
  IF aggregated THEN AggLabels(AggTargets(rows, headers, mode), mode)
  ELSE RawLabels(RawTargets(LabFold(<<>>, rows), mode), mode)

\* the size check made against the largest page size instead of the default one
LabelsVerdict_MaxAsDefault(rows, headers, mode, startRaw, limitRaw, aggregated, total) ==
  IF rows = <<>> THEN Reject("Empty CSV", <<>>)
  ELSE IF aggregated /\ ORDER_ID \notin DOMAIN rows[1]
       THEN Reject("Missing required column", ORDER_ID)
  ELSE IF aggregated /\ getBundleIndices(headers) = {}
       THEN Reject("Aggregated CSV detected but no Bundle columns found", <<>>)
  ELSE IF aggregated /\ mode = <<"o","r","d","e","r">> /\ ~\E h \in Range(headers) : HasBundleOneTag(h)
       THEN Reject("Aggregated CSV missing Bundle 1 columns for order mode", <<>>)
  ELSE IF ~aggregated /\ FirstMissing(rows[1]) # {}
       THEN Reject("Missing required column", CHOOSE c \in FirstMissing(rows[1]) : TRUE)
  ELSE IF aggregated /\ total = 0
       THEN Reject("No bundles found in aggregated CSV for the selected mode", <<>>)
  ELSE IF startRaw = Absent /\ limitRaw = Absent /\ total > MAX_LABEL_LIMIT
       THEN Reject("Too many labels", <<>>)
  ELSE IF StartOf(startRaw) >= total
       THEN Reject("start out of range", <<>>)
  ELSE NoResp

\* the response of a rejected label request, NoResp when page generation may start
LabelsVerdict(rows, headers, mode, startRaw, limitRaw, aggregated, total) ==
  IF rows = <<>> THEN Reject("Empty CSV", <<>>)
  ELSE IF aggregated /\ ORDER_ID \notin DOMAIN rows[1]
       THEN Reject("Missing required column", ORDER_ID)
  ELSE IF aggregated /\ getBundleIndices(headers) = {}
       THEN Reject("Aggregated CSV detected but no Bundle columns found", <<>>)
  ELSE IF aggregated /\ mode = <<"o","r","d","e","r">> /\ ~\E h \in Range(headers) : HasBundleOneTag(h)
       THEN Reject("Aggregated CSV missing Bundle 1 columns for order mode", <<>>)
  ELSE IF ~aggregated /\ FirstMissing(rows[1]) # {}
       THEN Reject("Missing required column", CHOOSE c \in FirstMissing(rows[1]) : TRUE)
  ELSE IF aggregated /\ total = 0
       THEN Reject("No bundles found in aggregated CSV for the selected mode", <<>>)
  ELSE IF startRaw = Absent /\ limitRaw = Absent /\ total > DEFAULT_LABEL_LIMIT
       THEN Reject("Too many labels", <<>>)
  ELSE IF StartOf(startRaw) >= total
       THEN Reject("start out of range", <<>>)
  ELSE NoResp

\* the locals the page generation reads
PlanOf(verdict, rows, headers, mode, aggregated) ==
  IF verdict = NoResp
  THEN [aggregated |-> aggregated, labels |-> LabelsOf(rows, headers, mode, aggregated),
        total |-> TotalLabels(rows, headers, mode, aggregated),
        needs |-> NeedsOf(rows, headers, mode, aggregated)]
  ELSE NoPlan

LabelsChecked(rows, headers, mode, startRaw, limitRaw, aggregated) ==
  LabelsVerdict(rows, headers, mode, startRaw, limitRaw, aggregated,
                TotalLabels(rows, headers, mode, aggregated))

\* handleLabels from the parsed form to the validated label count
LabelsCheck(rows, headers, mode, startRaw, limitRaw) ==
  LabelsChecked(rows, headers, mode, startRaw, limitRaw, isAggregatedHeaders(headers))

\* the font loads started as soon as the scan is complete, before the count is validated
LabelsProcess_FontsAfterScan ==
  /\ pc = "lab_form"
  /\ resp' = LabelsCheck(file.rows, file.headers, req.mode, req.start, req.limit)
  /\ plan' = PlanOf(resp', file.rows, file.headers, req.mode, isAggregatedHeaders(file.headers))
  /\ fonts' = IF resp'.error \in {"", "Too many labels", "start out of range"}
              THEN FontFiles(NeedsOf(file.rows, file.headers, req.mode,
                                     isAggregatedHeaders(file.headers)))
              ELSE {}
  /\ pc' = IF resp' = NoResp THEN "lab_pdf" ELSE "done"
  /\ UNCHANGED <<builtinDrop, file, req, dropSet, probe>>

LabelsProcess ==
  /\ pc = "lab_form"
  /\ resp' = LabelsCheck(file.rows, file.headers, req.mode, req.start, req.limit)
  /\ plan' = PlanOf(resp', file.rows, file.headers, req.mode, isAggregatedHeaders(file.headers))
  /\ pc' = IF resp' = NoResp THEN "lab_pdf" ELSE "done"
  /\ UNCHANGED <<builtinDrop, file, req, dropSet, probe, fonts>>

\* handleLabels from the created document to the started font loads
LabelsFonts ==
  /\ pc = "lab_pdf"
  /\ fonts' = FontFiles(plan.needs)
  /\ pc' = "lab_pages"
  /\ UNCHANGED <<builtinDrop, file, req, dropSet, plan, resp, probe>>

\* handleLabels from the embedded fonts to the saved PDF
LabelsGenerate ==
  /\ pc = "lab_pages"
  /\ resp' = [NoResp EXCEPT !.status = 200,
                !.pages = GeneratePages(plan.labels, StartOf(req.start),
                                        LimitOf(req.limit))]
  /\ pc' = "done"
  /\ UNCHANGED <<builtinDrop, file, req, dropSet, plan, probe, fonts>>

\* the worker takes the next request; nothing of the finished one is kept
NextRequest ==
  /\ pc = "done"
  /\ file' \in { [headers |-> h, rows |-> <<>>] : h \in Headers }
  /\ pc' = "compose"
  /\ req' = NoReq
  /\ dropSet' = {}
  /\ plan' = NoPlan
  /\ resp' = NoResp
  /\ fonts' = {}
  /\ UNCHANGED <<builtinDrop, probe>>

Next ==
  \/ AddRow
  \/ AggregateStart
  \/ AggregateProcess
  \/ LabelsStart
  \/ LabelsProcess
  \/ LabelsFonts
  \/ LabelsGenerate
  \/ NextRequest

Spec == Init /\ [][Next]_vars

(***************************************************************************)
(* The fold step on one row, for item and quantity texts drawn from a      *)
(* larger alphabet than the uploads above.                                 *)
(***************************************************************************)
ItemWords ==
  { <<>>, <<"c","o","a","t","i","n","g">>, <<"C","o","a","t","i","n","g">>, <<"l","e","n","s">>, <<"L","E","N","S">>, <<"e","s">>, <<"i","n","d","e","x"," ","l","e","n","s">>,
    <<"P","r","e","s","c","r","i","p","t","i","o","n"," ","L","e","n","s">>, <<"f","r","a","m","e">>, <<"F","r","a","m","e">>, <<"g","l","a","s","s","e","s"," ","s","t","y","l","e">>, <<"c","l","o","t","h">> }
ItemJoints == { <<>>, <<" ">>, <<"-">>, <<"_">> }
ItemTexts == { a \o j \o b : a \in ItemWords, j \in ItemJoints, b \in ItemWords }

QtyTexts ==
  { <<"1">>, <<"3">>, <<"0">>, <<"-","2">>, <<"0",".","5">>, <<>>, <<"a","b","c">>, <<"1",".","0">>, <<" ","2"," ">>, <<"-","0">>, <<"2",".","5","0">>,
    <<"0","1">>, <<"1",".","5","x">>, <<".","5">>, <<"1","2">>, <<"+","4">> }

InitFold ==
  /\ builtinDrop = AGGREGATE_DROP_DEFAULT
  /\ file = [headers |-> H_RAW, rows |-> <<>>]
  /\ pc = "fold"
  /\ req = NoReq
  /\ dropSet = {}
  /\ plan = NoPlan
  /\ resp = NoResp
  /\ probe = NoProbe
  /\ fonts = {}

\* lines 671-674 of the fold, on a fresh bundle
FoldOneRow ==
  /\ pc = "fold"
  /\ ~probe.done
  /\ \E item \in ItemTexts, qty \in QtyTexts :
       probe' = [done |-> TRUE, item |-> item, qty |-> qty,
                 bundle |-> PushItem(NewBundle(<<"1">>), item, qty)]
  /\ UNCHANGED <<builtinDrop, file, pc, req, dropSet, plan, resp, fonts>>

NextFold == FoldOneRow

SpecFold == InitFold /\ [][NextFold]_vars


(***************************************************************************)
(* Paging: a client fetches a label sequence page after page, each request *)
(* with start advanced by the page size.                                   *)
(***************************************************************************)
LabelCounts == 0..MaxLabels \cup {DEFAULT_LABEL_LIMIT + 1, MAX_LABEL_LIMIT + 1}
PageSizes == 1..MaxPage \cup {DEFAULT_LABEL_LIMIT, MAX_LABEL_LIMIT}

\* label n of a sequence, told apart by its backer
NumberedLabel(n) == [backer |-> NatText(n), name |-> <<"-">>, od_sph |-> <<>>, pd |-> <<<<>>, <<>>>>]

InitPages ==
  /\ builtinDrop = AGGREGATE_DROP_DEFAULT
  /\ file = [headers |-> H_AGG, rows |-> <<>>]
  /\ pc = "pages"
  /\ req = NoReq
  /\ dropSet = {}
  /\ plan = NoPlan
  /\ resp = NoResp
  /\ probe \in { [labels |-> [i \in 1..n |-> NumberedLabel(i)], k |-> k, next |-> 0,
                   got |-> <<>>] : n \in LabelCounts, k \in PageSizes }
  /\ fonts = {}

\* the request {start = next, limit = k} and the pages it returns
FetchPage ==
  /\ pc = "pages"
  /\ probe.next < Len(probe.labels)
  /\ probe' = [probe EXCEPT !.got = @ \o GeneratePages(probe.labels, probe.next, probe.k),
                             !.next = @ + probe.k]
  /\ UNCHANGED <<builtinDrop, file, pc, req, dropSet, plan, resp, fonts>>

NextPages == FetchPage

SpecPages == InitPages /\ [][NextPages]_vars

(***************************************************************************)
(* Label text: one text is drawn on a page, left- or centre-anchored.      *)
(***************************************************************************)
titleSize == 6
bodySize == 5

TextAlphabet == {"A", "V", "\t", "kana", "hangul", "han", "eacute"}
Texts == UNION { [1..k -> TextAlphabet] : k \in 0..MaxTextLen }

\* the script fonts embedded: none for an all-ASCII document, else those the scan asked for
LoadedFonts == SUBSET {"jp", "sc", "kr"}

\* positions on the page, in units of 1/2000 point
Anchors == {17000, 141732}

InitText ==
  /\ builtinDrop = AGGREGATE_DROP_DEFAULT
  /\ file = [headers |-> H_RAW, rows |-> <<>>]
  /\ pc = "text"
  /\ req = NoReq
  /\ dropSet = {}
  /\ plan = NoPlan
  /\ resp = NoResp
  /\ probe \in { [fs |-> FontsOf(l), size |-> s, text |-> t, anchor |-> "none", at |-> 0,
                   w |-> 0, page |-> <<>>, thrown |-> FALSE] :
                   l \in LoadedFonts, s \in {titleSize, bodySize}, t \in Texts }
  /\ fonts = {}

\* drawTopLeft(xPos, topY, text, size)
DrawTopLeft ==
  /\ pc = "text"
  /\ probe.anchor = "none"
  /\ \E xPos \in Anchors :
       probe' = [probe EXCEPT
                   !.anchor = "left", !.at = xPos,
                   !.page = drawTextRuns(probe.fs, normalizeText(probe.text), xPos,
                                         probe.size).drawn,
                   !.thrown = drawTextRuns(probe.fs, normalizeText(probe.text), xPos,
                                           probe.size).thrown]
  /\ UNCHANGED <<builtinDrop, file, pc, req, dropSet, plan, resp, fonts>>

\* the draw of drawTopCenter once the width w is measured
CenterDrawn(xCenter, w) ==
  IF w.thrown
  THEN [probe EXCEPT !.anchor = "center", !.at = xCenter, !.thrown = TRUE]
  ELSE [probe EXCEPT
          !.anchor = "center", !.at = xCenter, !.w = w.width,
          !.page = drawTextRuns(probe.fs, normalizeText(probe.text),
                                xCenter - (w.width \div 2), probe.size).drawn,
          !.thrown = drawTextRuns(probe.fs, normalizeText(probe.text),
                                  xCenter - (w.width \div 2), probe.size).thrown]

\* drawTopCenter(xCenter, topY, text, size)
DrawTopCenter ==
  /\ pc = "text"
  /\ probe.anchor = "none"
  /\ \E xCenter \in Anchors :
       probe' = CenterDrawn(xCenter, MeasuredRuns(probe.fs, normalizeText(probe.text),
                                                  probe.size))
  /\ UNCHANGED <<builtinDrop, file, pc, req, dropSet, plan, resp, fonts>>

NextText ==
  \/ DrawTopLeft
  \/ DrawTopCenter

SpecText == InitText /\ [][NextText]_vars

(***************************************************************************)
(* Rx values: one cell of a prescription column is picked, formatted and   *)
(* put in the table of the label.                                          *)
(***************************************************************************)
RxBodies ==
  { <<>>, <<"/">>, <<"n","a","n">>, <<"N","a","N">>, <<"N","A","N">>, <<"a","b","c">>, <<"n","/","a">>, <<"1",",","5">>, <<"1",".","2",".","3">>, <<"1"," ","2">>, <<"e","1">>, <<"1","e">>,
    <<"0">>, <<"2">>, <<"1","8","0">>, <<"2",".","5">>, <<".","5">>, <<"5",".">>, <<"0",".","1","2","5">>, <<"1","2",".","3","4","5","6">>, <<"8","9",".","5">>,
    <<"1",".","0","0","5">>, <<"0",".","0","0","5">>, <<"2",".","6","7","5">>, <<"8",".","3","4","5">>, <<"1",".","5","e","2">>, <<"2","5","E","-","1">>,
    <<"1","e","2","1">>, <<"1","2","e","2","0">>, <<"1","0","0","0","0","0","0","0","0","0","0","0","0","0","0","0","0","0","0","0","0","0">>, <<"I","n","f","i","n","i","t","y">>, <<"1","e","4","0","0">> }
RxSigns == { <<>>, <<"-">>, <<"+">> }
RxPads == { <<>>, <<" ">> }
RxValues == { p \o s \o b \o p : p \in RxPads, s \in RxSigns, b \in RxBodies }

OD_AXIS == <<"O","D"," ","A","x","i","s">>

\* a row whose sphere and axis cells both hold the text, or which has neither column
RxRow(present, text) ==
  IF present THEN [k \in {OD_SPH, OD_AXIS} |-> text] ELSE [k \in {} |-> <<>>]

\* v || "-" of the value row of the table
OrDash(v) == IF v = <<>> THEN <<"-">> ELSE v

InitFmt ==
  /\ builtinDrop = AGGREGATE_DROP_DEFAULT
  /\ file = [headers |-> H_RAW, rows |-> <<>>]
  /\ pc = "fmt"
  /\ req = NoReq
  /\ dropSet = {}
  /\ plan = NoPlan
  /\ resp = NoResp
  /\ probe \in { [present |-> b, value |-> v, done |-> FALSE, sph |-> <<>>, axis |-> <<>>,
                   shown |-> <<>>] : b \in BOOLEAN, v \in RxValues }
  /\ fonts = {}

\* od_sph and od_axis of one label and the two cells drawn for them
FormatRx ==
  /\ pc = "fmt"
  /\ ~probe.done
  /\ probe' = [probe EXCEPT
                 !.done = TRUE,
                 !.sph = fmtTwoDec(pick(RxRow(probe.present, probe.value), RX_KEYS.od_sph)),
                 !.axis = fmtAxis(pick(RxRow(probe.present, probe.value), RX_KEYS.od_axis)),
                 !.shown = << OrDash(fmtTwoDec(pick(RxRow(probe.present, probe.value),
                                                    RX_KEYS.od_sph))),
                              OrDash(fmtAxis(pick(RxRow(probe.present, probe.value),
                                                  RX_KEYS.od_axis))) >>]
  /\ UNCHANGED <<builtinDrop, file, pc, req, dropSet, plan, resp, fonts>>

NextFmt == FormatRx

SpecFmt == InitFmt /\ [][NextFmt]_vars

(***************************************************************************)
(* Label lines: one text of the right-hand column is wrapped, and one text *)
(* is fitted on a single line.                                             *)
(***************************************************************************)
\* x(0.97) - x(0.45) for the page width 5 * 28.3464566929 pt, in whole units of 1/2000 pt
\* (widths are whole numbers of units, so the fraction cut off changes no comparison)
rightMaxWidth == 147401

\* the line budget drawLabel passes
maxLines == 2

Repeat(ch, n) == [i \in 1..n |-> ch]

\* words of Latin letters and of ideographs, and one phrase of two words: some short, some
\* filling most of a line, some wider than a line at the body size and some wider even
\* at the floor size
LayoutPhrases ==
  { Repeat("A", 3), Repeat("A", 12), Repeat("A", 20), Repeat("A", 30),
    Repeat("han", 8), Repeat("han", 16), Repeat("A", 9) \o <<" ">> \o Repeat("A", 3) }

PhraseLists == UNION { [1..k -> LayoutPhrases] : k \in 0..MaxPhrases }

\* the texts handed to the layout: phrases separated by one blank
LayoutTexts == { Join(ps, <<" ">>) : ps \in PhraseLists }

InitLayout ==
  /\ builtinDrop = AGGREGATE_DROP_DEFAULT
  /\ file = [headers |-> H_RAW, rows |-> <<>>]
  /\ pc = "layout"
  /\ req = NoReq
  /\ dropSet = {}
  /\ plan = NoPlan
  /\ resp = NoResp
  /\ probe \in { [fs |-> FontsOf({"jp", "sc", "kr"}), text |-> t, op |-> "none",
                   lines |-> <<>>] : t \in LayoutTexts }
  /\ fonts = {}

\* buildWrappedLines(fonts, text, bodySize, rightMaxWidth, 2)
WrapText ==
  /\ pc = "layout"
  /\ probe.op = "none"
  /\ probe' = [probe EXCEPT !.op = "wrap",
                 !.lines = buildWrappedLines(probe.fs, probe.text, bodySize, rightMaxWidth,
                                             maxLines)]
  /\ UNCHANGED <<builtinDrop, file, pc, req, dropSet, plan, resp, fonts>>

\* fitLine(fonts, line, bodySize, rightMaxWidth) of a line of the layout
FitText ==
  /\ pc = "layout"
  /\ probe.op = "none"
  /\ probe' = [probe EXCEPT !.op = "fit",
                 !.lines = <<fitLine(probe.fs, probe.text, bodySize, rightMaxWidth, minSize)>>]
  /\ UNCHANGED <<builtinDrop, file, pc, req, dropSet, plan, resp, fonts>>

NextLayout ==
  \/ WrapText
  \/ FitText

SpecLayout == InitLayout /\ [][NextLayout]_vars
(***************************************************************************)
(* Category lists: the displays pushed for one category of one bundle and  *)
(* the list written to the output cell.                                    *)
(***************************************************************************)
ItemDisplays == { <<>>, <<" ">>, <<"a">>, <<" ","a">>, <<"a"," ">>, <<"A">>, <<"b">> }

RECURSIVE SeqsUpTo(_, _)
SeqsUpTo(S, n) ==
  IF n = 0 THEN { <<>> }
  ELSE SeqsUpTo(S, n - 1) \cup { Append(s, x) : s \in { t \in SeqsUpTo(S, n - 1) : Len(t) = n - 1 }, x \in S }

CategoryLists == SeqsUpTo(ItemDisplays, MaxItems)

InitUniq ==
  /\ builtinDrop = AGGREGATE_DROP_DEFAULT
  /\ file = [headers |-> H_RAW, rows |-> <<>>]
  /\ pc = "uniq"
  /\ req = NoReq
  /\ dropSet = {}
  /\ plan = NoPlan
  /\ resp = NoResp
  /\ probe \in { [list |-> l, calls |-> 0, out |-> <<>>] : l \in CategoryLists }
  /\ fonts = {}

\* uniqPreserveOrder(b.items.Frame) of the output row
UniqList ==
  /\ pc = "uniq"
  /\ probe.calls = 0
  /\ probe' = [probe EXCEPT !.calls = 1, !.out = uniqPreserveOrder(probe.list)]
  /\ UNCHANGED <<builtinDrop, file, pc, req, dropSet, plan, resp, fonts>>

\* the function applied to a list it returned
UniqAgain ==
  /\ pc = "uniq"
  /\ probe.calls = 1
  /\ probe' = [probe EXCEPT !.calls = 2, !.out = uniqPreserveOrder(probe.out)]
  /\ UNCHANGED <<builtinDrop, file, pc, req, dropSet, plan, resp, fonts>>

NextUniq == UniqList \/ UniqAgain

SpecUniq == InitUniq /\ [][NextUniq]_vars
(***************************************************************************)
(* Lookup of one prescription value of one bundle in an aggregated row.    *)
(***************************************************************************)
BundleIndices == 1..MaxBundleIndex

\* columns an aggregated row may carry for the sphere of the right eye
PickColumns ==
  { BundleKey(<<"O","D"," ","S","P","H">>, i) : i \in BundleIndices }
    \cup { BundleKey(<<"O","D","_","S","P","H">>, 1), <<"O","D"," ","S","P","H">>, <<"O","D","_","S","P","H">>, BundleKey(<<"o","d"," ","s","p","h">>, 1), <<"o","d"," ","s","p","h">> }

\* the cell of a column: none, empty, blank, or a padded text naming the column
CellKinds == { "none", "empty", "blank", "text" }

PickRow(kinds) ==
  [ c \in { k \in PickColumns : kinds[k] # "none" } |->
      IF kinds[c] = "empty" THEN <<>>
      ELSE IF kinds[c] = "blank" THEN <<" ">>
      ELSE <<" ">> \o c ]

PickRows == { PickRow(kinds) : kinds \in [PickColumns -> CellKinds] }

InitPick ==
  /\ builtinDrop = AGGREGATE_DROP_DEFAULT
  /\ file = [headers |-> H_RAW, rows |-> <<>>]
  /\ pc = "pick"
  /\ req = NoReq
  /\ dropSet = {}
  /\ plan = NoPlan
  /\ resp = NoResp
  /\ probe \in { [row |-> r, given |-> r, index |-> i, done |-> FALSE, value |-> <<>>] :
                   r \in PickRows, i \in BundleIndices }
  /\ fonts = {}

\* pickFromBundle(row, RX_KEYS.od_sph, i)
PickBundleValue ==
  /\ pc = "pick"
  /\ ~probe.done
  /\ probe' = [probe EXCEPT !.done = TRUE,
                            !.value = pickFromBundle(probe.row, RX_KEYS.od_sph, probe.index)]
  /\ UNCHANGED <<builtinDrop, file, pc, req, dropSet, plan, resp, fonts>>

NextPick == PickBundleValue

SpecPick == InitPick /\ [][NextPick]_vars
(***************************************************************************)
(* The folds row by row: the Order/Bundle map after each row of the loop   *)
(* of handleAggregate (no column dropped) and of the raw path of           *)
(* handleLabels.                                                           *)
(***************************************************************************)
StreamHeaders == {H_RAW, H_RAW_COUNT}
StreamRows(h) ==
  { RawRow(h, <<"A">>, b, v) : b \in BundleIds, v \in 1..3 }
    \cup { RawRow(h, <<"B">>, <<"2">>, v) : v \in 2..3 }

InitStream ==
  /\ builtinDrop = AGGREGATE_DROP_DEFAULT
  /\ file \in { [headers |-> h, rows |-> <<>>] : h \in StreamHeaders }
  /\ pc = "stream"
  /\ req = NoReq
  /\ dropSet = {}
  /\ plan = NoPlan
  /\ resp = NoResp
  /\ probe \in { [kind |-> k, n |-> 0, map |-> <<>>, last |-> EmptyObject] :
                   k \in {"aggregate", "labels"} }
  /\ fonts = {}

\* one iteration of `for (const r of rows)`, lines 657-679
AggregateRow ==
  /\ pc = "stream"
  /\ probe.kind = "aggregate"
  /\ probe.n < MaxStream
  /\ \E r \in StreamRows(file.headers) :
       probe' = [probe EXCEPT
                   !.n = @ + 1,
                   !.last = r,
                   !.map = AggFoldRow(@, r, OrderLevelColsOf(file.headers, {}),
                                      RxColumnsOf(file.headers, {}))]
  /\ UNCHANGED <<builtinDrop, file, pc, req, dropSet, plan, resp, fonts>>

\* one iteration of `for (const r of rows)`, lines 821-852
LabelsRow ==
  /\ pc = "stream"
  /\ probe.kind = "labels"
  /\ probe.n < MaxStream
  /\ \E r \in StreamRows(file.headers) :
       probe' = [probe EXCEPT !.n = @ + 1, !.last = r, !.map = LabFoldRow(@, r)]
  /\ UNCHANGED <<builtinDrop, file, pc, req, dropSet, plan, resp, fonts>>

NextStream == AggregateRow \/ LabelsRow

SpecStream == InitStream /\ [][NextStream]_vars
(***************************************************************************)
(* Concurrent invocations: the worker's fetch handler runs several         *)
(* requests at once, each suspended at its awaits; the locals of an        *)
(* invocation are one entry of calls, the module-level Set is shared.      *)
(***************************************************************************)
Requests == 1..MaxRequests

Uploads ==
  { [headers |-> H_RAW, rows |-> <<RawRow(H_RAW, <<"A">>, <<"2">>, 1), RawRow(H_RAW, <<"A">>, <<"1","0">>, 2)>>] }
    \cup { [headers |-> H_AGG, rows |-> <<AggRow(H_AGG, cells)>>] :
             cells \in { c \in AggCells : BundleKey(PD_OD, 1) \in DOMAIN c } }

ConcurrentDrops ==
  { [drop |-> <<>>, dropCols |-> {}], [drop |-> <<"c","u","s","t","o","m">>, dropCols |-> DropCols] }

ConcurrentLabels ==
  { [mode |-> <<"b","u","n","d","l","e">>, start |-> Absent, limit |-> Absent],
    [mode |-> <<"o","r","d","e","r">>, start |-> Absent, limit |-> Absent],
    [mode |-> <<"b","u","n","d","l","e">>, start |-> Given(1), limit |-> Given(2)] }

NoCall == [pc |-> "idle", req |-> NoReq, file |-> [headers |-> <<>>, rows |-> <<>>],
           dropSet |-> {}, plan |-> NoPlan, resp |-> NoResp, fonts |-> {}]

InitConcurrent ==
  /\ builtinDrop = AGGREGATE_DROP_DEFAULT
  /\ file = [headers |-> H_RAW, rows |-> <<>>]
  /\ pc = "concurrent"
  /\ req = NoReq
  /\ dropSet = {}
  /\ plan = NoPlan
  /\ resp = NoResp
  /\ probe = [i \in Requests |-> NoCall]
  /\ fonts = {}

\* fetch dispatches to handleAggregate, which runs up to `await request.formData()`
CallAggregate(i) ==
  /\ probe[i].pc = "idle"
  /\ \E d \in ConcurrentDrops, f \in { u \in Uploads : u.headers = H_RAW } :
       /\ probe' = [probe EXCEPT ![i] =
                      [@ EXCEPT !.pc = "agg_form",
                                !.file = f,
                                !.req = [NoReq EXCEPT !.op = "aggregate", !.drop = d.drop,
                                                      !.dropCols = d.dropCols],
                                !.dropSet = BuildDropSet(builtinDrop, d.drop, d.dropCols)]]
       /\ builtinDrop' = BuiltinAfterRequest(builtinDrop, d.drop, d.dropCols)
  /\ UNCHANGED <<file, pc, req, dropSet, plan, resp, fonts>>

\* handleAggregate from the parsed form to its response
ReplyAggregate(i) ==
  /\ probe[i].pc = "agg_form"
  /\ probe' = [probe EXCEPT ![i] =
                 [@ EXCEPT !.pc = "done",
                           !.resp = IF probe[i].file.rows = <<>> THEN Reject("Empty CSV", <<>>)
                                    ELSE IF FirstMissing(probe[i].file.rows[1]) # {}
                                         THEN Reject("Missing required column",
                                                     CHOOSE c \in FirstMissing(probe[i].file.rows[1]) : TRUE)
                                    ELSE AggregateResponse(probe[i].file.headers,
                                                           probe[i].file.rows,
                                                           probe[i].dropSet)]]
  /\ UNCHANGED <<builtinDrop, file, pc, req, dropSet, plan, resp, fonts>>

\* fetch dispatches to handleLabels, which runs up to `await request.formData()`
CallLabels(i) ==
  /\ probe[i].pc = "idle"
  /\ \E p \in ConcurrentLabels, f \in Uploads :
       probe' = [probe EXCEPT ![i] =
                   [@ EXCEPT !.pc = IF LimitOf(p.limit) > MAX_LABEL_LIMIT THEN "done" ELSE "lab_form",
                             !.file = f,
                             !.req = [NoReq EXCEPT !.op = "labels", !.mode = p.mode,
                                                   !.start = p.start, !.limit = p.limit],
                             !.resp = IF LimitOf(p.limit) > MAX_LABEL_LIMIT
                                      THEN Reject("limit too large", <<>>) ELSE NoResp]]
  /\ UNCHANGED <<builtinDrop, file, pc, req, dropSet, plan, resp, fonts>>

\* handleLabels from the parsed form to the validated label count
CheckLabels(i) ==
  /\ probe[i].pc = "lab_form"
  /\ LET c == probe[i]
         verdict == LabelsCheck(c.file.rows, c.file.headers, c.req.mode, c.req.start, c.req.limit)
     IN probe' = [probe EXCEPT ![i] =
                    [@ EXCEPT !.pc = IF verdict = NoResp THEN "lab_pdf" ELSE "done",
                              !.resp = verdict,
                              !.plan = PlanOf(verdict, c.file.rows, c.file.headers, c.req.mode,
                                              isAggregatedHeaders(c.file.headers))]]
  /\ UNCHANGED <<builtinDrop, file, pc, req, dropSet, plan, resp, fonts>>

\* handleLabels from the created document to the started font loads
LoadFonts(i) ==
  /\ probe[i].pc = "lab_pdf"
  /\ probe' = [probe EXCEPT ![i] = [@ EXCEPT !.pc = "lab_pages",
                                             !.fonts = FontFiles(probe[i].plan.needs)]]
  /\ UNCHANGED <<builtinDrop, file, pc, req, dropSet, plan, resp, fonts>>

\* handleLabels from the embedded fonts to the saved PDF
ReplyLabels(i) ==
  /\ probe[i].pc = "lab_pages"
  /\ probe' = [probe EXCEPT ![i] =
                 [@ EXCEPT !.pc = "done",
                           !.resp = [NoResp EXCEPT !.status = 200,
                                       !.pages = GeneratePages(probe[i].plan.labels,
                                                               StartOf(probe[i].req.start),
                                                               LimitOf(probe[i].req.limit))]]]
  /\ UNCHANGED <<builtinDrop, file, pc, req, dropSet, plan, resp, fonts>>

NextConcurrent ==
  \E i \in Requests :
    \/ CallAggregate(i)
    \/ ReplyAggregate(i)
    \/ CallLabels(i)
    \/ CheckLabels(i)
    \/ LoadFonts(i)
    \/ ReplyLabels(i)

SpecConcurrent == InitConcurrent /\ [][NextConcurrent]_vars
(***************************************************************************)
(* Properties of the fold step on one row (SpecFold).                      *)
(***************************************************************************)
\* the entries of the four category lists of the folded bundle, list after list
FoldedEntries ==
  probe.bundle.items["Frame"] \o probe.bundle.items["Lens"]
    \o probe.bundle.items["Coating"] \o probe.bundle.items["Other"]

\* C5: the display string of a row is the bare item text when Quantity equals 1, is not
\* numeric or is missing, and is "{item} x{qty}" for every other numeric Quantity,
\* 0 included
C5_QuantityDisplay ==
  probe.done =>
    LET n == Number(probe.qty)
        missing == Trim(probe.qty) = <<>>
    IN FoldedEntries =
         << IF missing \/ n.nan \/ NumEq(n, One) THEN probe.item
            ELSE probe.item \o <<" ","x">> \o NumberText(n) >>

\* C6: every item text gets exactly one category by the cascade Coating > Lens > Frame >
\* Other over the lower-cased text, and the row's display string is appended to the list
\* of that category and to no other
C6_CategoryCascade ==
  probe.done =>
    LET s == ToLower(probe.item)
        coating == Includes(s, <<"c","o","a","t","i","n","g">>)
        lens == Includes(s, <<"i","n","d","e","x"," ","l","e","n","s">>) \/ Includes(s, <<"p","r","e","s","c","r","i","p","t","i","o","n"," ","l","e","n","s">>)
                  \/ HasWholeWord(s, <<"l","e","n","s">>)
        frame == Includes(s, <<"f","r","a","m","e">>) \/ Includes(s, <<"g","l","a","s","s","e","s"," ","s","t","y","l","e">>)
        filled == { cat \in Categories : probe.bundle.items[cat] # <<>> }
    IN /\ Cardinality(filled) = 1
       /\ Len(FoldedEntries) = 1
       /\ coating => filled = {"Coating"}
       /\ (~coating /\ lens) => filled = {"Lens"}
       /\ (~coating /\ ~lens /\ frame) => filled = {"Frame"}
       /\ (~coating /\ ~lens /\ ~frame) => filled = {"Other"}

\* an item naming a coating and a lens has been folded into the Coating list
C6_Witness ==
  /\ probe.done
  /\ Includes(ToLower(probe.item), <<"c","o","a","t","i","n","g">>)
  /\ HasWholeWord(ToLower(probe.item), <<"l","e","n","s">>)
  /\ probe.bundle.items["Coating"] # <<>>

(***************************************************************************)
(* Reference notions for the properties of the two handlers (Spec): what   *)
(* the uploaded rows say, read without the handlers' data structures.      *)
(***************************************************************************)
\* a precedes b in lexicographic order of code units
LexLess(a, b) ==
  \E p \in 1..(Len(a) + 1) :
    /\ p <= Len(b)
    /\ \A q \in 1..(p - 1) : a[q] = b[q]
    /\ (p = Len(a) + 1 \/ CodeUnits[a[p]] < CodeUnits[b[p]])

\* the texts of a set in lexicographic order
RECURSIVE LexSorted(_)
LexSorted(set) ==
  IF set = {} THEN <<>>
  ELSE LET least == CHOOSE a \in set : \A b \in set \ {a} : LexLess(a, b)
       IN <<least>> \o LexSorted(set \ {least})

InRows == file.rows

\* the Order IDs of the input in order of first appearance
RECURSIVE FirstAppearances(_, _)
FirstAppearances(i, seen) ==
  IF i > Len(InRows) THEN <<>>
  ELSE IF InRows[i][ORDER_ID] \in seen THEN FirstAppearances(i + 1, seen)
  ELSE <<InRows[i][ORDER_ID]>> \o FirstAppearances(i + 1, seen \cup {InRows[i][ORDER_ID]})

InOrderIds == { InRows[i][ORDER_ID] : i \in DOMAIN InRows }

RowsOfOrder(oid) == { i \in DOMAIN InRows : InRows[i][ORDER_ID] = oid }

RowsOfBundle(oid, bid) == { i \in RowsOfOrder(oid) : InRows[i][BUNDLE_ID] = bid }

BundleIdsOf(oid) == { InRows[i][BUNDLE_ID] : i \in RowsOfOrder(oid) }

\* the value of column c in the earliest of the given rows where it is not blank
FirstNonBlank(rowIdx, c) ==
  LET filled == { i \in rowIdx : Trim(InRows[i][c]) # <<>> } IN
  IF filled = {} THEN <<>>
  ELSE InRows[CHOOSE i \in filled : \A j \in filled : i <= j][c]

\* the Rx pattern of the data model, and the order-level columns of a header
IsRxName(c) == rxRe(c) \/ c = LENS_NOTES

IsOrderLevelName(c) ==
  c \notin {ORDER_ID, BUNDLE_ID, LINE_ITEM, QTY, LINE_ITEM_PRICE} /\ ~IsRxName(c)

MaxBundlesInInput ==
  LET counts == { Cardinality(BundleIdsOf(oid)) : oid \in InOrderIds } IN
  CHOOSE m \in counts : \A n \in counts : n <= m

AggOk == pc = "done" /\ req.op = "aggregate" /\ resp.status = 200

\* the output rows carrying a given Order ID
OutRowsOf(oid) == { k \in DOMAIN resp.rows : resp.rows[k][ORDER_ID] = oid }

\* C1: a successful aggregate outputs exactly one row per distinct Order ID of the input,
\* and the Order ID of every input row is the Order ID of exactly one output row
C1_OneRowPerOrder ==
  AggOk =>
    /\ Len(resp.rows) = Cardinality(InOrderIds)
    /\ \A i \in DOMAIN InRows : Cardinality(OutRowsOf(InRows[i][ORDER_ID])) = 1

\* three rows of two orders have been aggregated into two rows
C1_Witness ==
  /\ AggOk
  /\ Len(InRows) = 3
  /\ Cardinality(InOrderIds) = 2
  /\ Len(resp.rows) = 2

\* the order-level columns that reach the output
KeptOrderLevel ==
  { c \in Range(file.headers) : IsOrderLevelName(c) /\ c \in Range(resp.columns) }

\* C2: the cell of every order-level column is the first value of that column,
\* in input order, that is not blank among the rows of the order, and is empty when the
\* order has none
C2_FirstNonEmptyOrderField ==
  AggOk =>
    \A k \in DOMAIN resp.rows : \A c \in KeptOrderLevel :
      resp.rows[k][c] = FirstNonBlank(RowsOfOrder(resp.rows[k][ORDER_ID]), c)

\* the Rx columns that reach the output
KeptRx ==
  { c \in Range(file.headers) : IsRxName(c) /\ BundleKey(c, 1) \in Range(resp.columns) }

\* C3: the cell "c (Bundle i)" of an order is the first non-blank value of the Rx column c
\* among the rows of that order and of its i-th bundle, and empty when there is none;
\* values of other bundles or of other orders never reach it
C3_RxPerBundle ==
  AggOk =>
    \A k \in DOMAIN resp.rows :
      LET oid == resp.rows[k][ORDER_ID]
          ids == LexSorted(BundleIdsOf(oid))
      IN \A i \in DOMAIN ids : \A c \in KeptRx :
           resp.rows[k][BundleKey(c, i)] = FirstNonBlank(RowsOfBundle(oid, ids[i]), c)

\* order A has bundle 2 without a sphere and bundle 10 with one, order B has a bundle 2
\* with another sphere: the cell of order A for its bundle 2 is empty
C3_Witness ==
  /\ AggOk
  /\ BundleKey(OD_SPH, 2) \in Range(resp.columns)
  /\ \E ka, kb \in DOMAIN resp.rows :
       /\ resp.rows[ka][ORDER_ID] = <<"A">>
       /\ resp.rows[kb][ORDER_ID] = <<"B">>
       /\ resp.rows[ka][BundleKey(BUNDLE_ID, 2)] = <<"2">>
       /\ resp.rows[ka][BundleKey(OD_SPH, 2)] = <<>>
       /\ resp.rows[ka][BundleKey(OD_SPH, 1)] = <<"+","1"," ">>
       /\ resp.rows[kb][BundleKey(BUNDLE_ID, 1)] = <<"2">>
       /\ resp.rows[kb][BundleKey(OD_SPH, 1)] = <<"-","2">>

\* a label request for raw rows answered with the whole PDF (no start, no limit)
LabelsOk ==
  /\ pc = "done" /\ req.op = "labels" /\ resp.status = 200
  /\ ~isAggregatedHeaders(file.headers)
  /\ req.start = Absent /\ req.limit = Absent

\* the bundle ids of the orders one after the other, each order's in lexicographic order
RECURSIVE BundleSequence(_)
BundleSequence(oids) ==
  IF oids = <<>> THEN <<>>
  ELSE LexSorted(BundleIdsOf(Head(oids))) \o BundleSequence(Tail(oids))

HeaderOrderLevel == FilterSeq(file.headers, { c \in Range(file.headers) : IsOrderLevelName(c) })

HeaderRx == FilterSeq(file.headers, { c \in Range(file.headers) : IsRxName(c) })

\* the block of columns of bundle i
ExpectedBlock(i) ==
  << BundleKey(BUNDLE_ID, i), BundleKey(<<"F","r","a","m","e"," ","I","t","e","m","s">>, i), BundleKey(<<"L","e","n","s"," ","I","t","e","m","s">>, i),
     BundleKey(<<"C","o","a","t","i","n","g"," ","I","t","e","m","s">>, i), BundleKey(<<"O","t","h","e","r"," ","I","t","e","m","s">>, i) >>
    \o [k \in DOMAIN HeaderRx |-> BundleKey(HeaderRx[k], i)]

RECURSIVE ExpectedBlocks(_, _)
ExpectedBlocks(i, m) ==
  IF i > m THEN <<>> ELSE ExpectedBlock(i) \o ExpectedBlocks(i + 1, m)

\* C7: with no columns dropped the output columns are Order ID, Bundle Count, the
\* order-level columns in header order, then for i = 1..M the block of bundle i, M being the
\* largest number of distinct bundles of one order; an order with k < M bundles has empty
\* cells in the blocks k+1..M
C7_ColumnLayout ==
  (AggOk /\ req.drop = <<"n","o","n","e">>) =>
    /\ resp.columns = <<ORDER_ID, BUNDLE_COUNT>> \o HeaderOrderLevel
                        \o ExpectedBlocks(1, MaxBundlesInInput)
    /\ \A k \in DOMAIN resp.rows :
         \A i \in (Cardinality(BundleIdsOf(resp.rows[k][ORDER_ID])) + 1)..MaxBundlesInInput :
           \A c \in Range(ExpectedBlock(i)) : resp.rows[k][c] = <<>>

\* nothing dropped, a first order with one bundle and a later order with two
C7_Witness ==
  /\ AggOk
  /\ req.drop = <<"n","o","n","e">>
  /\ MaxBundlesInInput = 2
  /\ Cardinality(BundleIdsOf(InRows[1][ORDER_ID])) = 1
  /\ BundleKey(OD_SPH, 2) \in Range(resp.columns)

\* C8: no name of the effective drop set, and no derived column "name (Bundle N)" of it,
\* is an output column of aggregate or carries a value in an output row
C8_DroppedColumnsAbsent ==
  AggOk =>
    \A n \in dropSet :
      /\ n \notin Range(resp.columns)
      /\ \A k \in DOMAIN resp.out : n \notin DOMAIN resp.out[k]
      /\ \A i \in 1..(MaxRows + 1) :
           /\ BundleKey(n, i) \notin Range(resp.columns)
           /\ \A k \in DOMAIN resp.out : BundleKey(n, i) \notin DOMAIN resp.out[k]

\* the names of a drop_cols parameter, trimmed, without the empty ones
SuppliedNames(cols) == { Trim(c) : c \in cols } \ {<<>>}

\* C9: the effective drop set is empty for drop=none, the built-in list for drop=default or
\* no drop parameter, the built-in list and the supplied names for drop=custom; and the
\* built-in list is the same for every request
C9_EffectiveDropSet ==
  /\ builtinDrop = AGGREGATE_DROP_DEFAULT
  /\ req.op = "aggregate" =>
       dropSet = IF ToLower(req.drop) = <<"n","o","n","e">> THEN {}
                 ELSE IF ToLower(req.drop) = <<"c","u","s","t","o","m">>
                      THEN AGGREGATE_DROP_DEFAULT \cup SuppliedNames(req.dropCols)
                 ELSE AGGREGATE_DROP_DEFAULT

\* a custom request whose supplied names joined the built-in list
C9_Witness ==
  /\ pc = "done"
  /\ req.op = "aggregate"
  /\ req.drop = <<"c","u","s","t","o","m">>
  /\ <<"N","a","m","e">> \in dropSet
  /\ <<"N","a","m","e">> \notin AGGREGATE_DROP_DEFAULT
  /\ AGGREGATE_DROP_DEFAULT \subseteq dropSet

\* the required columns a header lacks
MissingRequired == { c \in Range(RequiredColumns) : c \notin Range(file.headers) }

FirstMissingRequired ==
  RequiredColumns[CHOOSE i \in DOMAIN RequiredColumns :
                    /\ RequiredColumns[i] \in MissingRequired
                    /\ \A j \in 1..(i - 1) : RequiredColumns[j] \notin MissingRequired]

Answered == pc = "done" /\ req.op \in {"aggregate", "labels"}

RejectedNaming(c) ==
  resp.status = 400 /\ resp.error = "Missing required column" /\ resp.column = c

\* C10: aggregate and labels alike answer an input whose header lacks one of Order ID,
\* Bundle ID, Line Item, Quantity with a 400 naming the first missing column in that order,
\* a header without Bundle ID always with a 400 naming Bundle ID, and an empty row sequence
\* with a rejection
C10_MissingColumnRejected ==
  Answered =>
    /\ InRows = <<>> => resp.status = 400
    /\ (InRows # <<>> /\ MissingRequired # {}) => RejectedNaming(FirstMissingRequired)
    /\ (InRows # <<>> /\ BUNDLE_ID \in MissingRequired) => RejectedNaming(BUNDLE_ID)

\* the requests whose rows reach the check of the four required columns
ChecksRequired ==
  \/ req.op = "aggregate"
  \/ /\ req.op = "labels"
     /\ LimitOf(req.limit) <= MAX_LABEL_LIMIT
     /\ ~isAggregatedHeaders(file.headers)

\* C10 as amended: aggregate, and labels for an input not detected as aggregated and a
\* limit of at most 300, answer a non-empty input whose header lacks a required column with
\* a 400 naming the first missing column, which is Bundle ID when only Order ID precedes it
\* in the header; labels for an input detected as aggregated require Order ID alone; an
\* empty row sequence is rejected with a 400
C10_MissingColumnRejectedAmended ==
  Answered =>
    /\ InRows = <<>> => resp.status = 400
    /\ (InRows # <<>> /\ MissingRequired # {} /\ ChecksRequired) =>
         RejectedNaming(FirstMissingRequired)
    /\ (InRows # <<>> /\ ChecksRequired /\ BUNDLE_ID \in MissingRequired
          /\ ORDER_ID \notin MissingRequired) => RejectedNaming(BUNDLE_ID)
    /\ (InRows # <<>> /\ req.op = "labels" /\ LimitOf(req.limit) <= MAX_LABEL_LIMIT
          /\ isAggregatedHeaders(file.headers) /\ ORDER_ID \in MissingRequired) =>
         RejectedNaming(ORDER_ID)

\* labels rejected a raw file without Bundle ID, naming it
C10_Witness ==
  /\ Answered
  /\ req.op = "labels"
  /\ InRows # <<>>
  /\ file.headers = H_NO_BUNDLE
  /\ RejectedNaming(BUNDLE_ID)

(***************************************************************************)
(* Properties of the label handler's validation, paging and font loading.  *)
(***************************************************************************)
\* the request was answered with a validation error
Rejected == pc = "done" /\ resp.status = 400

\* the needs the scan of the uploaded file raises (defined once the header is validated)
FileNeeds == NeedsOf(file.rows, file.headers, req.mode, isAggregatedHeaders(file.headers))

\* C11: a label or aggregate request that ended in a validation error has requested no
\* font file, added no page to the document and emitted no output row.
C11_RejectedEmitsNothing ==
  Rejected => /\ fonts = {}
              /\ resp.pages = <<>>
              /\ resp.rows = <<>>
              /\ resp.out = <<>>

\* a label request over a file with non-ASCII text was rejected at the count validation
C11_Witness ==
  /\ Rejected
  /\ req.op = "labels"
  /\ resp.error \in {"Too many labels", "start out of range"}
  /\ FileNeeds.nonAscii
  /\ fonts = {}

Least(a, b) == IF a <= b THEN a ELSE b

FileAggregated == isAggregatedHeaders(file.headers)

\* the upload passes the checks made before the labels are counted
CountReached ==
  /\ file.rows # <<>>
  /\ IF FileAggregated
     THEN /\ ORDER_ID \in Range(file.headers)
          /\ getBundleIndices(file.headers) # {}
          /\ (req.mode = <<"o","r","d","e","r">> => \E h \in Range(file.headers) : HasBundleOneTag(h))
     ELSE Range(RequiredColumns) \subseteq Range(file.headers)

\* the label sequence of the upload and its length as the count stage computes it
FileLabels == LabelsOf(file.rows, file.headers, req.mode, FileAggregated)
FileTotal == TotalLabels(file.rows, file.headers, req.mode, FileAggregated)

LabelsDone == pc = "done" /\ req.op = "labels"

\* the response is the window of the label sequence that start and limit select
WindowServed(labels, total, start, limit) ==
  /\ resp.status = 200
  /\ Len(resp.pages) = Least(limit, total - start)
  /\ \A j \in DOMAIN resp.pages : resp.pages[j] = labels[start + j]

CountRejected ==
  /\ resp.status = 400
  /\ resp.pages = <<>>
  /\ resp.error \in {"start out of range",
                      "No bundles found in aggregated CSV for the selected mode"}

\* a label request with a limit in 1..MAX_LABEL_LIMIT on an upload whose labels are counted
PagedLabelsDone ==
  /\ LabelsDone
  /\ req.limit # Absent
  /\ LimitOf(req.limit) <= MAX_LABEL_LIMIT
  /\ CountReached

\* C13: for 0 <= start < total and 1 <= limit <= 300 exactly min(limit, total - start)
\* pages are generated and they are the labels at positions start, start + 1, ... of the
\* full sequence; a start at or past the total is rejected at the count validation.
C13_PageWindow ==
  PagedLabelsDone =>
    IF StartOf(req.start) < FileTotal
    THEN WindowServed(FileLabels, FileTotal, StartOf(req.start), LimitOf(req.limit))
    ELSE CountRejected

\* a window cut by the limit, not by the end of the sequence, and not starting at 0
C13_Witness ==
  /\ PagedLabelsDone
  /\ resp.status = 200
  /\ StartOf(req.start) > 0
  /\ Len(resp.pages) = LimitOf(req.limit)
  /\ FileTotal > StartOf(req.start) + LimitOf(req.limit)

\* C14: a limit above 300 is always answered 400; a request with neither start nor limit
\* whose upload yields more than 200 labels is answered with the size-limit error and no
\* document; no successful response carries more than 300 pages.
C14_LabelBudget ==
  /\ (LabelsDone /\ LimitOf(req.limit) > MAX_LABEL_LIMIT) =>
        resp.status = 400 /\ resp.error = "limit too large" /\ resp.pages = <<>>
  /\ (LabelsDone /\ req.start = Absent /\ req.limit = Absent /\ CountReached
         /\ FileTotal > DEFAULT_LABEL_LIMIT) =>
        resp.status = 400 /\ resp.error = "Too many labels" /\ resp.pages = <<>>
  /\ (LabelsDone /\ resp.status = 200) => Len(resp.pages) <= MAX_LABEL_LIMIT

\* an upload with more labels than the largest page, served up to the largest page
C14_Witness ==
  /\ LabelsDone
  /\ resp.status = 200
  /\ FileTotal > MAX_LABEL_LIMIT
  /\ Len(resp.pages) = MAX_LABEL_LIMIT

\* an upload with more than 200 labels requested without paging
C14_WitnessUnpaged ==
  /\ LabelsDone
  /\ req.start = Absent /\ req.limit = Absent
  /\ CountReached
  /\ FileTotal > DEFAULT_LABEL_LIMIT
  /\ resp.error = "Too many labels"

\* "(Bundle", white space, the digits at positions j..k-1 and ")" at k, whatever the case
TagAt(s, i, j, k) ==
  /\ OccursAt(s, <<"(","b","u","n","d","l","e">>, i)
  /\ j > i + 7
  /\ \A q \in (i + 7)..(j - 1) : IsSpace(s[q])
  /\ k > j
  /\ \A q \in j..(k - 1) : IsDigit(s[q])
  /\ s[k] = ")"

\* the positions <<j, k>> of the digits and the closing bracket of the tags of s
TagSpans(s) ==
  UNION { { u \in ((i + 8)..Len(s)) \X ((i + 9)..Len(s)) : TagAt(s, i, u[1], u[2]) } :
            i \in { p \in 1..Len(s) : OccursAt(s, <<"(","b","u","n","d","l","e">>, p) } }

\* the numbers N for which the column name carries a "(Bundle N)" tag
TagNumbers(h) == { DigitsValue(SubSeq(h, u[1], u[2] - 1)) : u \in TagSpans(ToLower(h)) }

Tagged(headers) == { h \in Range(headers) : TagNumbers(h) # {} }

\* the header has a Bundle Count column or a bundle-tagged column
HeaderAggregated(headers) == BUNDLE_COUNT \in Range(headers) \/ Tagged(headers) # {}

\* some column is tagged for a bundle N >= 1
HasPositiveTag(headers) == \E h \in Tagged(headers) : \E n \in TagNumbers(h) : n >= 1

\* some column carries the tag of bundle 1, written with the digit 1 alone
HasTagOne(headers) ==
  \E h \in Range(headers) : \E u \in TagSpans(ToLower(h)) : u[2] = u[1] + 1 /\ h[u[1]] = "1"

AggregatedOnlyErrors ==
  { "Aggregated CSV detected but no Bundle columns found",
    "Aggregated CSV missing Bundle 1 columns for order mode",
    "No bundles found in aggregated CSV for the selected mode" }

\* C15: a label input is treated as aggregated exactly when its header has a Bundle Count
\* column or a column tagged "(Bundle <digits>)"; an aggregated input with no column
\* tagged for a bundle N >= 1 is answered 400 in both modes, and one with no "(Bundle 1)"
\* column is answered 400 in order mode.
C15_AggregatedDetection ==
  LabelsDone =>
    /\ (resp.status = 200 => plan.aggregated = HeaderAggregated(file.headers))
    /\ (HeaderAggregated(file.headers) => resp.column \notin {BUNDLE_ID, LINE_ITEM, QTY})
    /\ (~HeaderAggregated(file.headers) => resp.error \notin AggregatedOnlyErrors)
    /\ (HeaderAggregated(file.headers) /\ ~HasPositiveTag(file.headers) => resp.status = 400)
    /\ (HeaderAggregated(file.headers) /\ ~HasTagOne(file.headers) /\ req.mode = <<"o","r","d","e","r">>
          => resp.status = 400)

\* a table whose only tagged column is for bundle 2: refused in order mode for the tag
C15_Witness ==
  /\ LabelsDone
  /\ req.mode = <<"o","r","d","e","r">>
  /\ HeaderAggregated(file.headers)
  /\ HasPositiveTag(file.headers)
  /\ ~HasTagOne(file.headers)
  /\ resp.error = "Aggregated CSV missing Bundle 1 columns for order mode"

\* the Bundle Count cell of a row as a number (not a number when the column is missing)
CountCell(row) == IF BUNDLE_COUNT \in DOMAIN row THEN Number(row[BUNDLE_COUNT]) ELSE NaN

\* the bundle numbers N with a non-empty "(Bundle N)" column in the row
FilledNumbers(row, headers) ==
  UNION { TagNumbers(h) : h \in { g \in Tagged(headers) : NonBlank(row, g) } }

Highest(numbers) == IF numbers = {} THEN 0 ELSE CHOOSE n \in numbers : \A k \in numbers : k <= n

\* floor(Bundle Count) when that is a positive number, else the highest filled bundle number
EffectiveCount(row, headers) ==
  IF ~CountCell(row).nan /\ ~CountCell(row).neg /\ ~IsZero(CountCell(row))
  THEN CountCell(row).int
  ELSE Highest(FilledNumbers(row, headers))

\* the bundle numbers a row yields labels for, in order
YieldedBundles(count, mode) ==
  IF mode = <<"o","r","d","e","r">> THEN (IF count >= 1 THEN <<1>> ELSE <<>>) ELSE [i \in 1..count |-> i]

\* the (row, bundle number) pairs of the labels of a table, row after row
RECURSIVE ExpectedAggTargets(_, _, _, _)
ExpectedAggTargets(rows, n, headers, mode) ==
  IF n > Len(rows) THEN <<>>
  ELSE LET list == YieldedBundles(EffectiveCount(rows[n], headers), mode) IN
       [k \in DOMAIN list |-> <<n, list[k]>>] \o ExpectedAggTargets(rows, n + 1, headers, mode)

\* the cell of bundle i for a field of an aggregated row
BundleCell(row, name, i) ==
  IF BundleKey(name, i) \in DOMAIN row THEN row[BundleKey(name, i)] ELSE <<>>

\* the label shows bundle i of the row: its bundle id (or order id and number) as backer
\* in bundle mode, the order id in order mode, and the bundle's own OD PD
LabelIsFor(label, row, i, mode) ==
  /\ label.backer = IF mode = <<"o","r","d","e","r">> THEN row[ORDER_ID]
                    ELSE IF BundleCell(row, BUNDLE_ID, i) # <<>> THEN BundleCell(row, BUNDLE_ID, i)
                    ELSE row[ORDER_ID] \o <<"-">> \o NatText(i)
  /\ label.pd[1] = fmtTwoDec(BundleCell(row, PD_OD, i))

PagesAreFor(pages, targets, rows, start, mode) ==
  \A j \in DOMAIN pages :
    LabelIsFor(pages[j], rows[targets[start + j][1]], targets[start + j][2], mode)

AggLabelsServed == LabelsDone /\ resp.status = 200 /\ FileAggregated

\* C16: the effective bundle count of an aggregated row is floor(Bundle Count) when that
\* cell is a positive number, else the highest bundle number with a non-empty column in the
\* row (0 if none); in bundle mode the row yields one label per number 1..count in
\* increasing order, in order mode one label read from Bundle 1 when count >= 1.
C16_EffectiveBundleCount ==
  AggLabelsServed =>
    /\ plan.total = Len(ExpectedAggTargets(file.rows, 1, file.headers, req.mode))
    /\ PagesAreFor(resp.pages, ExpectedAggTargets(file.rows, 1, file.headers, req.mode),
                   file.rows, StartOf(req.start), req.mode)

\* a row with Bundle Count 2.5 gave the labels of its bundles 1 and 2, then a row without
\* a count gave the label of its only filled bundle
C16_Witness ==
  /\ AggLabelsServed
  /\ req.mode = <<"b","u","n","d","l","e">>
  /\ file.headers = H_AGG
  /\ Len(file.rows) = 2
  /\ file.rows[1][BUNDLE_COUNT] = <<"2",".","5">>
  /\ file.rows[2][BUNDLE_COUNT] = <<>>
  /\ [j \in DOMAIN resp.pages |-> resp.pages[j].backer] = <<<<"1","0">>, <<"2">>, <<"2">>>>

PD_OS == <<"P","D"," ","O","S">>

\* the (order id, bundle id) pairs of the labels of raw rows: the orders in order of first
\* appearance, each with its bundles in lexicographic order (order mode: the first only)
RECURSIVE ExpectedRawTargets(_, _)
ExpectedRawTargets(oids, mode) ==
  IF oids = <<>> THEN <<>>
  ELSE LET bids == LexSorted(BundleIdsOf(Head(oids)))
           shown == IF mode = <<"o","r","d","e","r">> THEN <<bids[1]>> ELSE bids
       IN [k \in DOMAIN shown |-> <<Head(oids), shown[k]>>]
            \o ExpectedRawTargets(Tail(oids), mode)

\* the first non-blank value of a field among the raw rows of a bundle
BundleField(oid, bid, c) ==
  IF c \in Range(file.headers) THEN FirstNonBlank(RowsOfBundle(oid, bid), c) ELSE <<>>

IsPositive(n) == ~n.nan /\ ~n.neg /\ ~IsZero(n)

\* the PD pair of a bundle with the given OD PD, OS PD and single PD fields
ExpectedPD(od, os, single) ==
  IF Trim(od) # <<>> \/ Trim(os) # <<>> THEN <<fmtTwoDec(od), fmtTwoDec(os)>>
  ELSE IF IsPositive(Number(single))
       THEN <<ToFixed2(HalfOf(Number(single))), ToFixed2(HalfOf(Number(single)))>>
  ELSE <<<<>>, <<>>>>

RawPDPairs(pages, targets, start) ==
  \A j \in DOMAIN pages :
    pages[j].pd = ExpectedPD(BundleField(targets[start + j][1], targets[start + j][2], PD_OD),
                             BundleField(targets[start + j][1], targets[start + j][2], PD_OS),
                             BundleField(targets[start + j][1], targets[start + j][2], SINGLE_PD))

AggPDPairs(pages, targets, rows, start) ==
  \A j \in DOMAIN pages :
    pages[j].pd = ExpectedPD(BundleCell(rows[targets[start + j][1]], PD_OD, targets[start + j][2]),
                             BundleCell(rows[targets[start + j][1]], PD_OS, targets[start + j][2]),
                             BundleCell(rows[targets[start + j][1]], SINGLE_PD,
                                        targets[start + j][2]))

RawLabelsServed == LabelsDone /\ resp.status = 200 /\ ~FileAggregated

\* the PD pairs of the labels of raw rows follow the rule
C18_RawPDPair ==
  RawLabelsServed =>
    RawPDPairs(resp.pages, ExpectedRawTargets(FirstAppearances(1, {}), req.mode),
               StartOf(req.start))

\* a raw bundle without OD PD and OS PD whose single PD 62 is shown as 31.00 and 31.00
C18_RawHalved ==
  /\ RawLabelsServed
  /\ \E j \in DOMAIN resp.pages : resp.pages[j].pd = <<<<"3","1",".","0","0">>, <<"3","1",".","0","0">>>>

\* C18: for every label, from raw or aggregated input: if the OD PD or the OS PD field is
\* non-empty each is formatted to two decimals on its own; else a positive single PD is
\* halved and shown with two decimals on both sides (62 gives 31.00 and 31.00); else both
\* are empty (0 gives two empty texts).
C18_PDPair ==
  /\ C18_RawPDPair
  /\ AggLabelsServed =>
       AggPDPairs(resp.pages, ExpectedAggTargets(file.rows, 1, file.headers, req.mode),
                  file.rows, StartOf(req.start))

\* the pieces of a text between the separators "; ", as a set (none for the empty text)
RECURSIVE SplitFrom(_, _)
SplitFrom(text, piece) ==
  IF text = <<>> THEN {piece}
  ELSE IF OccursAt(text, <<";"," ">>, 1) THEN {piece} \cup SplitFrom(SubSeq(text, 3, Len(text)), <<>>)
  ELSE SplitFrom(Tail(text), Append(piece, Head(text)))

SplitSet(text) == IF text = <<>> THEN {} ELSE SplitFrom(text, <<>>)

\* the display strings of the items of a category among the raw rows of a bundle
OriginalDisplays(oid, bid, cat) ==
  { DisplayOf(InRows[r][LINE_ITEM], InRows[r][QTY]) :
      r \in { q \in RowsOfBundle(oid, bid) : categorize(InRows[q][LINE_ITEM]) = cat } }

TrimmedDisplays(oid, bid, cat) == { Trim(d) : d \in OriginalDisplays(oid, bid, cat) } \ {<<>>}

\* the view of bundle i read back from an aggregated row has the items of every category
ItemsReadBack(row, oid, bid, i) ==
  \A k \in DOMAIN ItemColumns :
    SplitSet(BundleCell(row, ItemColumns[k].name, i))
      = OriginalDisplays(oid, bid, ItemColumns[k].cat)

TrimmedItemsReadBack(row, oid, bid, i) ==
  \A k \in DOMAIN ItemColumns :
    SplitSet(BundleCell(row, ItemColumns[k].name, i))
      = TrimmedDisplays(oid, bid, ItemColumns[k].cat)

RxReadBack(row, oid, bid, i, rxNames) ==
  \A c \in rxNames : BundleCell(row, c, i) = FirstNonBlank(RowsOfBundle(oid, bid), c)

\* the bundle ids of the order of an output row, in the order of the bundle numbers
BundleIdsOfRow(row) == LexSorted(BundleIdsOf(row[ORDER_ID]))

ScannedChars ==
  UNION { Range(t) :
            t \in IF FileAggregated
                  THEN AggScanned(file.rows, file.headers, req.mode)
                  ELSE RawScanned(file.rows, LabFold(<<>>, file.rows)) }

\* the script font a character needs: kana the JP font, hangul the KR font, and every
\* other character outside printable ASCII the SC font, which is also the fallback font
NeedsJP(ch) == ~isAsciiPrintable(ch) /\ isHiraganaKatakana(ch)
NeedsKR(ch) == ~isAsciiPrintable(ch) /\ ~isHiraganaKatakana(ch) /\ isHangul(ch)
NeedsSC(ch) == ~isAsciiPrintable(ch) /\ ~isHiraganaKatakana(ch) /\ ~isHangul(ch)

\* the label count and the requested range have passed their validation
CountValidated ==
  /\ CountReached
  /\ FileTotal > 0
  /\ StartOf(req.start) < FileTotal
  /\ LimitOf(req.limit) \in 1..MAX_LABEL_LIMIT
  /\ (req.start = Absent /\ req.limit = Absent) => FileTotal <= DEFAULT_LABEL_LIMIT

\* the files requested are those the characters of the completed scan need
FontsNeeded(chars) ==
  /\ plan.needs = CharsNeeds(chars)
  /\ \E ch \in chars : ~isAsciiPrintable(ch)
  /\ FONT_FILES.jp \in fonts => \E ch \in chars : NeedsJP(ch)
  /\ FONT_FILES.sc \in fonts => \E ch \in chars : NeedsSC(ch)
  /\ FONT_FILES.kr \in fonts => \E ch \in chars : NeedsKR(ch)

\* C19: a font file is requested only after the scan of the label text is complete and
\* the label count and range are validated; the JP, SC or KR file is requested only if a
\* scanned character needs it, no other file is ever requested, and none at all is
\* requested when every scanned character is printable ASCII.
C19_FontsAfterScan ==
  /\ fonts \subseteq {FONT_FILES.jp, FONT_FILES.sc, FONT_FILES.kr}
  /\ fonts # {} => /\ req.op = "labels"
                   /\ pc \in {"lab_pages", "done"}
                   /\ resp.status # 400
                   /\ CountValidated
                   /\ FontsNeeded(ScannedChars)

\* a label request whose text holds kana and ideographs but no hangul was served with the
\* JP and SC files and without the KR file
C19_Witness ==
  /\ LabelsDone
  /\ resp.status = 200
  /\ fonts = {FONT_FILES.jp, FONT_FILES.sc}
  /\ \E ch \in ScannedChars : NeedsJP(ch)
  /\ ~ \E ch \in ScannedChars : NeedsKR(ch)

\* a label request whose text is printable ASCII throughout was served without any font file
C19_WitnessAscii ==
  /\ LabelsDone
  /\ resp.status = 200
  /\ resp.pages # <<>>
  /\ \A ch \in ScannedChars : isAsciiPrintable(ch)
  /\ fonts = {}

(***************************************************************************)
(* Measuring and drawing text runs.                                        *)
(***************************************************************************)
\* the text a draw routine of the label hands to the run routines
ProbeText == normalizeText(probe.text)

RECURSIVE SumRunWidths(_, _, _)
SumRunWidths(runs, i, size) ==
  IF i > Len(runs) THEN 0
  ELSE widthOfTextAtSize(runs[i].font, runs[i].text, size) + SumRunWidths(runs, i + 1, size)

\* the width of the runs on the page
DrawnWidth == SumRunWidths(probe.page, 1, probe.size)

RECURSIVE RunTexts(_, _)
RunTexts(runs, i) == IF i > Len(runs) THEN <<>> ELSE runs[i].text \o RunTexts(runs, i + 1)

\* the runs on the page are the runs the measurement measured: same texts, same fonts
SameRuns(measured, page) ==
  /\ Len(measured) = Len(page)
  /\ \A k \in DOMAIN page : /\ measured[k].text = page[k].text
                            /\ measured[k].font = page[k].font

\* every run starts where the run before it ends: the cursor advances by the run widths
RunsAbut(page, size) ==
  \A k \in 1..(Len(page) - 1) :
    page[k + 1].x = page[k].x + widthOfTextAtSize(page[k].font, page[k].text, size)

\* the measurement m of the drawn text agrees with the page
MeasureAgrees(m) ==
  IF probe.thrown
  THEN m.thrown /\ probe.page = <<>>
  ELSE /\ ~m.thrown
       /\ m.width = DrawnWidth
       /\ SameRuns(m.runs, probe.page)
       /\ RunTexts(probe.page, 1) = ProbeText
       /\ RunsAbut(probe.page, probe.size)
       /\ probe.anchor = "left" /\ probe.page # <<>> => probe.page[1].x = probe.at
       /\ probe.anchor = "center" /\ probe.page # <<>> =>
            /\ probe.w = DrawnWidth
            /\ 2 * (probe.at - probe.page[1].x) = DrawnWidth

\* C20: for every text and size the measured width is the sum of the widths of the runs
\* drawn for the same text and size, the drawn runs are the measured runs with the same
\* fonts, each run starts where the one before ends, and a centre-anchored draw starts
\* exactly half the drawn width before its centre.
C20_MeasureMatchesDraw ==
  probe.anchor # "none" => MeasureAgrees(MeasuredRuns(probe.fs, ProbeText, probe.size))

\* a centre-anchored text of two runs in two fonts, the first a kerned pair
C20_Witness ==
  /\ probe.anchor = "center"
  /\ ~probe.thrown
  /\ Len(probe.page) = 2
  /\ probe.page[1].font = "latin" /\ probe.page[1].text = <<"A", "V">>
  /\ probe.page[2].font = "sc" /\ probe.page[2].text = <<"eacute">>
  /\ 2 * (probe.at - probe.page[1].x) = DrawnWidth

\* a centre-anchored all-ASCII text drawn as one Latin run
C20_WitnessAscii ==
  /\ probe.anchor = "center"
  /\ isAsciiString(ProbeText)
  /\ Len(probe.page) = 1
  /\ Len(probe.page[1].text) = MaxTextLen
  /\ 2 * (probe.at - probe.page[1].x) = DrawnWidth

(***************************************************************************)
(* Two-decimal formatting of Rx values.                                    *)
(***************************************************************************)
\* the text of the cell the label reads: empty when the column is missing
RxCellText == IF probe.present THEN probe.value ELSE <<>>

\* blank, "/", "nan" in any case, or a text that does not parse to a finite number
GivesEmpty(text) ==
  \/ Trim(text) = <<>>
  \/ Trim(text) = <<"/">>
  \/ ToLower(Trim(text)) = <<"n","a","n">>
  \/ ~IsFinite(Number(text))

\* an optional minus sign, one digit or more, a point and exactly two digits
IsTwoDecimal(out) ==
  \E k \in 1..Len(out) :
    /\ out[k] = "."
    /\ Len(out) = k + 2
    /\ IsDigit(out[k + 1]) /\ IsDigit(out[k + 2])
    /\ \/ k > 1 /\ AllDigits(SubSeq(out, 1, k - 1))
       \/ k > 2 /\ out[1] = "-" /\ AllDigits(SubSeq(out, 2, k - 1))

\* an empty or missing value stays empty: neither "0.00" nor "0" is put on the label
EmptyStaysEmpty ==
  Trim(RxCellText) = <<>> =>
    /\ probe.sph = <<>>
    /\ probe.axis = <<>>
    /\ probe.shown = <<<<"-">>, <<"-">>>>

\* C21: two-decimal formatting gives the empty text for blank, "/", "nan" and unparsable
\* values and a fixed two-decimal text for every other value, and an empty or missing
\* value stays empty on the label.
C21_TwoDecimals ==
  probe.done =>
    /\ IF GivesEmpty(RxCellText) THEN probe.sph = <<>> ELSE IsTwoDecimal(probe.sph)
    /\ EmptyStaysEmpty

\* the same for the values of magnitude below 10^21
C21_TwoDecimalsBelowE21 ==
  (probe.done /\ Number(RxCellText).big = <<>>) =>
    /\ IF GivesEmpty(RxCellText) THEN probe.sph = <<>> ELSE IsTwoDecimal(probe.sph)
    /\ EmptyStaysEmpty

\* "-2" is formatted "-2.00" and a missing value is drawn as the placeholder
C21_MinusTwo ==
  /\ probe.done
  /\ RxCellText = <<"-","2">>
  /\ probe.sph = <<"-","2",".","0","0">>
  /\ probe.axis = <<"-","2">>

(***************************************************************************)
(* Wrapping a text on the lines of the label.                              *)
(***************************************************************************)
\* the width of a line at the body size
BodyWidth(line) == measureTextRuns(probe.fs, line, bodySize)

\* greedy word accumulation: a word joins the line while the line stays within the
\* width, else it opens the next line; the first word of a line is always taken
RECURSIVE GreedyLines(_, _, _)
GreedyLines(words, current, lines) ==
  IF words = <<>> THEN (IF current = <<>> THEN lines ELSE Append(lines, current))
  ELSE IF current = <<>> THEN GreedyLines(Tail(words), Head(words), lines)
  ELSE IF BodyWidth(current \o <<" ">> \o Head(words)) <= rightMaxWidth
       THEN GreedyLines(Tail(words), current \o <<" ">> \o Head(words), lines)
  ELSE GreedyLines(Tail(words), Head(words), Append(lines, current))

\* the lines of the budget when the greedy lines are more than the budget: the last line
\* takes everything left over and the truncation marker
OverBudget(greedy, budget) ==
  [k \in 1..budget |->
     IF k < budget THEN greedy[k]
     ELSE Join(SubSeq(greedy, budget, Len(greedy)), <<" ">>) \o ELLIPSIS]

\* the lines the claim describes for a text, before each is fitted to the width
ClaimedLines(text) ==
  IF text = <<>> THEN <<<<"-">>>>
  ELSE IF Len(GreedyLines(SplitWords(text), <<>>, <<>>)) > maxLines
       THEN OverBudget(GreedyLines(SplitWords(text), <<>>, <<>>), maxLines)
  ELSE GreedyLines(SplitWords(text), <<>>, <<>>)

LinesAre(expected) ==
  /\ Len(probe.lines) = Len(expected)
  /\ \A k \in DOMAIN expected :
       probe.lines[k] = fitLine(probe.fs, expected[k], bodySize, rightMaxWidth, minSize)

\* the number of lines is within the budget
LineCountInBudget == Len(probe.lines) \in 1..maxLines

\* C22: buildWrappedLines returns one to maxLines lines, and the last line carries the
\* appended "..." exactly when greedy word accumulation needs more than maxLines lines
\* of the width; a text whose words fit the budget is returned without the marker.
C22_WrapBudget ==
  probe.op = "wrap" => LineCountInBudget /\ LinesAre(ClaimedLines(normalizeText(probe.text)))

\* the line count alone
C22_LineCount == probe.op = "wrap" => LineCountInBudget

\* a text whose greedy lines exceed the budget is cut to the budget and marked
C22_OverflowMarked ==
  (probe.op = "wrap"
     /\ Len(GreedyLines(SplitWords(normalizeText(probe.text)), <<>>, <<>>)) > maxLines)
    => LinesAre(ClaimedLines(normalizeText(probe.text)))

\* three words that fit on two lines are returned with the marker on the second line
C22_MarkedThoughFits ==
  /\ probe.op = "wrap"
  /\ probe.text = Join(<<Repeat("A", 20), Repeat("A", 9), Repeat("A", 3)>>, <<" ">>)
  /\ Len(probe.lines) = 2
  /\ probe.lines[2].text = Join(<<Repeat("A", 9), Repeat("A", 3)>>, <<" ">>) \o ELLIPSIS

(***************************************************************************)
(* Fitting a line to the width.                                            *)
(***************************************************************************)
\* the sizes from the floor to the starting size at which the text is within the width
FittingSizes(text) ==
  { s \in minSize..bodySize : measureTextRuns(probe.fs, text, s) <= rightMaxWidth }

\* the counts of leading characters that are within the width at the floor size once the
\* ellipsis is appended
FittingCuts(text) ==
  { k \in 0..Len(text) :
      measureTextRuns(probe.fs, SubSeq(text, 1, k) \o ELLIPSIS, minSize) <= rightMaxWidth }

Greatest(S) == CHOOSE n \in S : \A m \in S : m <= n

\* the line the claim describes for a text
FittedAsClaimed(line, text, sizes) ==
  IF sizes # {}
  THEN line.text = text /\ line.size = Greatest(sizes)
  ELSE /\ line.size = minSize
       /\ FittingCuts(text) # {}
       /\ line.text = SubSeq(text, 1, Greatest(FittingCuts(text))) \o ELLIPSIS

\* C23: fitLine returns the text unchanged at the largest size, from the starting size
\* down to the floor of 4, at which it is within the width; when there is none it returns,
\* at the floor size, the longest prefix that is within the width together with the
\* ellipsis; the returned line is within the width at the returned size.
C23_FitLine ==
  probe.op = "fit" =>
    /\ FittedAsClaimed(probe.lines[1], probe.text, FittingSizes(probe.text))
    /\ measureTextRuns(probe.fs, probe.lines[1].text, probe.lines[1].size) <= rightMaxWidth

\* a text too wide at the floor size was cut to a proper prefix with the ellipsis
C23_Witness ==
  /\ probe.op = "fit"
  /\ FittingSizes(probe.text) = {}
  /\ probe.lines[1].size = minSize
  /\ Len(probe.lines[1].text) > Len(ELLIPSIS)
  /\ Len(probe.lines[1].text) < Len(probe.text)
  /\ \E k \in 1..Len(probe.text) : probe.text[k] = "han"

\* a text too wide at the body size was kept whole at the floor size
C23_WitnessShrunk ==
  /\ probe.op = "fit"
  /\ probe.lines[1] = [text |-> probe.text, size |-> minSize]
  /\ measureTextRuns(probe.fs, probe.text, bodySize) > rightMaxWidth

(***************************************************************************)
(* C24                                                                     *)
(***************************************************************************)
TrimmedAt(list, i) == Trim(list[i])

\* the position of the first entry of the list whose trimmed text is v
FirstOccurrence(list, v) ==
  CHOOSE i \in 1..Len(list) :
    TrimmedAt(list, i) = v /\ \A j \in 1..(i - 1) : TrimmedAt(list, j) # v

\* out holds exactly the non-blank trimmed entries of list, once each, in the
\* order of their first occurrences
IsDeduplicated(list, out) ==
  /\ Range(out) = { TrimmedAt(list, i) : i \in 1..Len(list) } \ { <<>> }
  /\ \A i, j \in 1..Len(out) : i # j => out[i] # out[j]
  /\ \A i, j \in 1..Len(out) :
       i < j => FirstOccurrence(list, out[i]) < FirstOccurrence(list, out[j])

\* C24: uniqPreserveOrder returns the trimmed entries of a category list
\* without the blank ones and without every duplicate after its first
\* occurrence, in the order of the first occurrences; the result has no
\* duplicates, and applied to its own result the function changes nothing.
C24_Uniq ==
  pc = "uniq" =>
    /\ probe.calls = 1 => IsDeduplicated(probe.list, probe.out)
    /\ probe.calls = 2 =>
         /\ IsDeduplicated(probe.list, probe.out)
         /\ probe.out = uniqPreserveOrder(probe.list)

\* a list with a blank entry, a duplicate that differs only in its padding,
\* and a later first occurrence has been deduplicated twice
C24_Witness ==
  /\ pc = "uniq"
  /\ probe.calls = 2
  /\ probe.list = << <<" ","a">>, <<" ">>, <<"a"," ">> >>
  /\ probe.out = << <<"a">> >>

C24_WitnessOrder ==
  /\ pc = "uniq"
  /\ probe.calls = 1
  /\ probe.list = << <<"b">>, <<"a">>, <<"b">> >>
  /\ probe.out = << <<"b">>, <<"a">> >>

(***************************************************************************)
(* C25                                                                     *)
(***************************************************************************)
\* the row has a cell under exactly this name whose trimmed text is not empty
FilledCell(row, name) == name \in DOMAIN row /\ Trim(row[name]) # <<>>

FirstOf(S) == CHOOSE n \in S : \A m \in S : n <= m

SuffixedHits(row, keys, i) ==
  { k \in 1..Len(keys) : FilledCell(row, keys[k] \o <<" ","(","B","u","n","d","l","e"," ">> \o NatText(i) \o <<")">>) }

PlainHits(row, keys) == { k \in 1..Len(keys) : FilledCell(row, keys[k]) }

Resolved(row, keys, i) ==
  IF SuffixedHits(row, keys, i) # {}
  THEN row[keys[FirstOf(SuffixedHits(row, keys, i))] \o <<" ","(","B","u","n","d","l","e"," ">> \o NatText(i) \o <<")">>]
  ELSE IF PlainHits(row, keys) # {} THEN row[keys[FirstOf(PlainHits(row, keys))]]
  ELSE <<>>

\* C25: the resolver returns the cell of the first candidate whose
\* "name (Bundle i)" cell is non-empty after trimming; only when no candidate
\* has one, the cell of the first candidate whose unsuffixed cell is
\* non-empty; the empty text when there is neither.  Names match exactly,
\* and the row is left as it was.
C25_Resolver ==
  (pc = "pick" /\ probe.done) =>
    /\ probe.value = Resolved(probe.given, RX_KEYS.od_sph, probe.index)
    /\ probe.row = probe.given

\* the second candidate's suffixed cell wins over the first candidate's
\* unsuffixed cell
C25_Witness ==
  /\ pc = "pick"
  /\ probe.done
  /\ probe.index = 1
  /\ ~FilledCell(probe.given, BundleKey(<<"O","D"," ","S","P","H">>, 1))
  /\ FilledCell(probe.given, <<"O","D"," ","S","P","H">>)
  /\ probe.value = <<" ">> \o BundleKey(<<"O","D","_","S","P","H">>, 1)

\* only cells of another bundle and cells whose name differs in case are filled
C25_WitnessNoMatch ==
  /\ pc = "pick"
  /\ probe.done
  /\ probe.index = 1
  /\ FilledCell(probe.given, BundleKey(<<"o","d"," ","s","p","h">>, 1))
  /\ FilledCell(probe.given, <<"o","d"," ","s","p","h">>)
  /\ FilledCell(probe.given, BundleKey(<<"O","D"," ","S","P","H">>, 2))
  /\ probe.value = <<>>

\* no suffixed cell is filled and the unsuffixed cell of the second candidate is returned
C25_WitnessFallback ==
  /\ pc = "pick"
  /\ probe.done
  /\ probe.index = 2
  /\ FilledCell(probe.given, BundleKey(<<"O","D"," ","S","P","H">>, 1))
  /\ probe.value = <<" ">> \o <<"O","D","_","S","P","H">>

(***************************************************************************)
(* C26                                                                     *)
(***************************************************************************)
IsPrefix(s, t) == Len(s) <= Len(t) /\ SubSeq(t, 1, Len(s)) = s

\* every field of the object that holds a non-empty value holds it afterwards
FieldsKept(old, new) ==
  \A c \in DOMAIN old : old[c] # <<>> => (c \in DOMAIN new /\ new[c] = old[c])

\* the bundle keeps its entries in place and its filled Rx fields
BundleKept(old, new) ==
  /\ new.bundleId = old.bundleId
  /\ \A cat \in Categories : IsPrefix(old.items[cat], new.items[cat])
  /\ FieldsKept(old.rx, new.rx)

\* the order-level values of an order of either fold
OrderValues(o) ==
  IF "orderFields" \in DOMAIN o THEN o.orderFields ELSE (NAME :> o.name)

OrderKept(old, new, r) ==
  /\ new.orderId = old.orderId
  /\ FieldsKept(OrderValues(old), OrderValues(new))
  /\ Len(new.bundles) >= Len(old.bundles)
  /\ \A k \in 1..Len(old.bundles) :
       /\ BundleKept(old.bundles[k], new.bundles[k])
       /\ old.bundles[k].bundleId # r[BUNDLE_ID] => new.bundles[k] = old.bundles[k]
  /\ \A k \in (Len(old.bundles) + 1)..Len(new.bundles) : new.bundles[k].bundleId = r[BUNDLE_ID]

MapKept(old, new, r) ==
  /\ Len(new) >= Len(old)
  /\ \A i \in 1..Len(old) :
       /\ OrderKept(old[i], new[i], r)
       /\ old[i].orderId # r[ORDER_ID] => new[i] = old[i]
  /\ \A i \in (Len(old) + 1)..Len(new) : new[i].orderId = r[ORDER_ID]

\* C26: in both folds, processing one more row removes or reorders no entry
\* of a category list, changes or clears no Rx or order-level field that
\* holds a non-empty value, removes no order and no bundle, and modifies
\* only the order and the bundle the row names.
C26_FoldMonotone ==
  [][(pc = "stream" /\ probe'.n = probe.n + 1) => MapKept(probe.map, probe'.map, probe'.last)]_vars

\* the aggregate fold has met a second and a third row of a bundle whose
\* sphere and name differ from the values kept, beside another bundle
C26_Witness ==
  /\ pc = "stream"
  /\ probe.kind = "aggregate"
  /\ probe.n = 3
  /\ Len(probe.map) = 1
  /\ Len(probe.map[1].bundles) = 2
  /\ probe.map[1].bundles[1].items["Lens"] # <<>>
  /\ \E cat \in Categories : Len(probe.map[1].bundles[1].items[cat]) = 2
  /\ file.headers = H_RAW
  /\ OD_SPH \in DOMAIN probe.map[1].bundles[1].rx
  /\ probe.map[1].bundles[1].rx[OD_SPH] = <<"-","2">>
  /\ probe.last[OD_SPH] = <<"+","1"," ">>
  /\ probe.last[BUNDLE_ID] = probe.map[1].bundles[1].bundleId
  /\ NAME \in DOMAIN probe.map[1].orderFields
  /\ probe.map[1].orderFields[NAME] = <<"A","n","n">>

C26_WitnessLabels ==
  /\ pc = "stream"
  /\ probe.kind = "labels"
  /\ probe.n = 3
  /\ Len(probe.map) = 2
  /\ file.headers = H_RAW
  /\ probe.map[1].name = <<"A","n","n">>
  /\ probe.last[NAME] = <<"han", "kana">>
  /\ probe.last[ORDER_ID] = probe.map[1].orderId
  /\ OD_SPH \in DOMAIN probe.map[1].bundles[1].rx
  /\ probe.map[1].bundles[1].rx[OD_SPH] = <<"-","2">>
  /\ probe.last[OD_SPH] = <<"+","1"," ">>

(***************************************************************************)
(* C27                                                                     *)
(***************************************************************************)
\* the response of handleAggregate run alone on the call's request and upload
AggregateAlone(c) ==
  IF c.file.rows = <<>> THEN Reject("Empty CSV", <<>>)
  ELSE IF FirstMissing(c.file.rows[1]) # {}
       THEN Reject("Missing required column", CHOOSE col \in FirstMissing(c.file.rows[1]) : TRUE)
  ELSE AggregateResponse(c.file.headers, c.file.rows,
                         BuildDropSet(AGGREGATE_DROP_DEFAULT, c.req.drop, c.req.dropCols))

\* the response of handleLabels run alone on the call's request and upload
LabelsAlone(c) ==
  IF LimitOf(c.req.limit) > MAX_LABEL_LIMIT THEN Reject("limit too large", <<>>)
  ELSE IF LabelsCheck(c.file.rows, c.file.headers, c.req.mode, c.req.start, c.req.limit) # NoResp
       THEN LabelsCheck(c.file.rows, c.file.headers, c.req.mode, c.req.start, c.req.limit)
  ELSE [NoResp EXCEPT !.status = 200,
          !.pages = GeneratePages(LabelsOf(c.file.rows, c.file.headers, c.req.mode,
                                           isAggregatedHeaders(c.file.headers)),
                                  StartOf(c.req.start), LimitOf(c.req.limit))]

RespondedAsAlone(c) ==
  c.resp = IF c.req.op = "aggregate" THEN AggregateAlone(c) ELSE LabelsAlone(c)

\* C27: requests interleaved at their suspension points each produce the
\* result they produce alone, and none modifies the built-in drop list.
C27_Isolation ==
  [][pc = "concurrent" =>
       /\ builtinDrop' = AGGREGATE_DROP_DEFAULT
       /\ \A i \in Requests :
            IF probe[i].pc = "done" THEN probe'[i] = probe[i]
            ELSE probe'[i].pc = "done" => RespondedAsAlone(probe'[i])]_vars

\* an aggregate request with the built-in list has answered although a
\* request with caller-supplied drop names started before it did and is
\* still suspended
C27_Witness ==
  /\ pc = "concurrent"
  /\ \E i, j \in Requests :
       /\ probe[i].pc = "done"
       /\ probe[i].req.op = "aggregate"
       /\ probe[i].req.drop = <<>>
       /\ probe[i].resp.status = 200
       /\ probe[j].pc = "agg_form"
       /\ probe[j].req.drop = <<"c","u","s","t","o","m">>

\* a label request has answered with pages while another is between its awaits
C27_WitnessLabels ==
  /\ pc = "concurrent"
  /\ \E i, j \in Requests :
       /\ probe[i].pc = "done"
       /\ probe[i].req.op = "labels"
       /\ probe[i].resp.pages # <<>>
       /\ probe[j].pc = "lab_pages"

(***************************************************************************)
(* C28                                                                     *)
(***************************************************************************)
\* the finished request is an aggregation with drop=none of a raw file that
\* the label operation accepts as well
AggregatedForLabels ==
  /\ pc = "done"
  /\ req.op = "aggregate"
  /\ DropModeOf(req.drop) = <<"n","o","n","e">>
  /\ resp.status = 200
  /\ ~isAggregatedHeaders(file.headers)
  /\ LabelsCheck(file.rows, file.headers, <<"b","u","n","d","l","e">>, Absent, Absent) = NoResp

\* the labels of bundle mode read from the raw rows and from the table produced
LabelsFromRaw == LabelsOf(file.rows, file.headers, <<"b","u","n","d","l","e">>, FALSE)
LabelsFromTable == LabelsOf(resp.rows, resp.columns, <<"b","u","n","d","l","e">>, isAggregatedHeaders(resp.columns))

\* C28: for a raw input accepted by both operations, the labels generated in
\* bundle mode from the raw rows equal, label for label and field for field,
\* the labels generated in bundle mode from the table that aggregate produces
\* for the same rows with drop=none.
C28_LabelsRefine == AggregatedForLabels => LabelsFromRaw = LabelsFromTable

\* the two label sequences name the same bundles in the same order and agree
\* on the name and the sphere of every label
C28_SameBundles ==
  AggregatedForLabels =>
    /\ Len(LabelsFromRaw) = Len(LabelsFromTable)
    /\ \A k \in DOMAIN LabelsFromRaw :
         /\ LabelsFromRaw[k].backer = LabelsFromTable[k].backer
         /\ LabelsFromRaw[k].name = LabelsFromTable[k].name
         /\ LabelsFromRaw[k].od_sph = LabelsFromTable[k].od_sph

\* a bundle with a single PD only: 31.00 twice from the raw rows, nothing from the table
C28_SinglePDLost ==
  /\ AggregatedForLabels
  /\ \E k \in DOMAIN LabelsFromRaw :
       /\ k \in DOMAIN LabelsFromTable
       /\ LabelsFromRaw[k].pd = << <<"3","1",".","0","0">>, <<"3","1",".","0","0">> >>
       /\ LabelsFromTable[k].pd = << <<>>, <<>> >>
       /\ LabelsFromRaw[k].backer = LabelsFromTable[k].backer

(***************************************************************************)
(* C29                                                                     *)
(***************************************************************************)
\* the blocks of an output row that carry a Bundle ID value
BlocksWithId(row) ==
  { i \in 1..MaxRows : BundleKey(BUNDLE_ID, i) \in DOMAIN row /\ row[BundleKey(BUNDLE_ID, i)] # <<>> }

BundleCountAsClaimed(row) ==
  /\ row[BUNDLE_COUNT] = NatText(Cardinality(BundleIdsOf(row[ORDER_ID])))
  /\ Cardinality(BundleIdsOf(row[ORDER_ID])) >= 1
  /\ Cardinality(BundleIdsOf(row[ORDER_ID])) = Cardinality(BlocksWithId(row))

AggregateAnswered == pc = "done" /\ req.op = "aggregate" /\ resp.status = 200

\* C29: in every row that aggregate outputs, the Bundle Count cell is the
\* number of distinct Bundle ID values among the input rows of the order, is
\* at least 1, and is the number of blocks i with a "Bundle ID (Bundle i)"
\* value, for every input header, one with a column named Bundle Count
\* included.
C29_BundleCount ==
  (AggregateAnswered /\ BUNDLE_COUNT \in Range(resp.columns)) =>
    \A k \in DOMAIN resp.rows : BundleCountAsClaimed(resp.rows[k])

\* the same for the inputs without a column named Bundle Count
C29_BundleCountNoCollision ==
  (AggregateAnswered /\ BUNDLE_COUNT \in Range(resp.columns)
     /\ BUNDLE_COUNT \notin Range(file.headers)) =>
    \A k \in DOMAIN resp.rows : BundleCountAsClaimed(resp.rows[k])

\* an order of two bundles whose first row has 7 in the input column Bundle
\* Count is output with the cell 7
C29_InputCellWins ==
  /\ AggregateAnswered
  /\ BUNDLE_COUNT \in Range(file.headers)
  /\ BUNDLE_COUNT \in Range(resp.columns)
  /\ \E k \in DOMAIN resp.rows :
       /\ resp.rows[k][BUNDLE_COUNT] = <<"7">>
       /\ Cardinality(BundleIdsOf(resp.rows[k][ORDER_ID])) = 2
       /\ Cardinality(BlocksWithId(resp.rows[k])) = 2

\* without the input column the cell of an order of two bundles is 2
C29_CountOfTwo ==
  /\ AggregateAnswered
  /\ BUNDLE_COUNT \notin Range(file.headers)
  /\ BUNDLE_COUNT \in Range(resp.columns)
  /\ \E k \in DOMAIN resp.rows :
       /\ resp.rows[k][BUNDLE_COUNT] = <<"2">>
       /\ Cardinality(BlocksWithId(resp.rows[k])) = 2

(***************************************************************************)
(* C30                                                                     *)
(***************************************************************************)
\* the fonts record of the request: Helvetica and the script fonts whose files were loaded
EmbeddedFonts == FontsOf({ k \in {"jp", "sc", "kr"} : FONT_FILES[k] \in fonts })

\* toLocaleDateString("en-US", { month: "short", day: "numeric", year: "numeric" })
DateText == <<"N","o","v"," ","4",","," ","2","0","2","6">>

\* the texts drawLabel draws for the fields of a label, with the fixed texts
DrawnTexts(label) ==
  { <<"O","r","d","e","r"," ","N","u","m","b","e","r",":"," ">> \o label.backer, <<"N","a","m","e",":"," ">> \o label.name,
    OrDash(label.od_sph), OrDash(label.pd[1]), OrDash(label.pd[2]),
    <<"P","r","e","s","c","r","i","p","t","i","o","n",":">>, <<"S","i","n","g","l","e"," ","V","i","s","i","o","n">>, <<"i","n","d","e","x"," ","l","e","n","s">>, <<"B","l","u","e"," ","L","i","g","h","t"," ","B","l","o","c","k","i","n","g">>,
    <<"-">>, ELLIPSIS, DateText }

\* drawTopLeft of the text raises no missing-font error
DrawsWithoutThrow(text) == ~drawTextRuns(EmbeddedFonts, normalizeText(text), 0, titleSize).thrown

LabelsAnswered == pc = "done" /\ req.op = "labels" /\ resp.status = 200

PagesDrawn == { resp.pages[k] : k \in DOMAIN resp.pages }

C30_WitnessRaw ==
  /\ LabelsAnswered
  /\ ~isAggregatedHeaders(file.headers)
  /\ FONT_FILES.jp \in fonts
  /\ \E label \in PagesDrawn : label.name = <<"han", "kana">>

\* a name of one no-break space is not scanned, no font is loaded, and the
\* label is drawn
C30_WitnessBlankName ==
  /\ LabelsAnswered
  /\ fonts = {}
  /\ \E label \in PagesDrawn : label.name = <<"nbsp">>
====
